---- MODULE Spec2Model ----
(***************************************************************************)
(* Pitcher-archetype pipeline: feature aggregation with the SV             *)
(* reclassification pre-pass (pipeline/03_feature_engineering.py) and the  *)
(* per-hand clustering stage with its nearest-cluster fallback             *)
(* (pipeline/04_clustering.py, pipeline/v22_year_analysis.py).             *)
(*                                                                         *)
(* Numbers.  pfx_z is kept in hundredths of a foot and release_speed in    *)
(* whole mph, so the cut-offs -0.50 ft and 84 mph are the integers -50 and *)
(* 84.  A mean is kept as the pair (sum, count) and compared with a        *)
(* cut-off by cross-multiplication; a usage percentage is kept as the      *)
(* fraction [num, den].                                                    *)
(***************************************************************************)
EXTENDS Integers, Sequences, FiniteSets, TLC

VARIABLES
    \* ---- feature engineering (03_feature_engineering.py) ----
    raw,          \* raw[y] = [exists, rows]: data/raw/statcast_<y>.parquet
    fe_pc,        \* position of 03 main: "start", "seasons", "done"
    sv_map,       \* the per-pitcher SV map returned by build_sv_mapping
    next_season,  \* index into SEASONS of the season the loop handles next
    cur_year,     \* the season process_season handled last (0: none yet)
    df,           \* process_season's df after the reclassification step
    usage,        \* the rows compute_pitch_usage returned for that season
    \* ---- reclassify_sv called on an arbitrary table and map ----
    rc_pc,        \* "idle", "ready", "once", "twice"
    rc_map,       \* the map argument
    rc_arg,       \* the caller's table, as it is now
    rc_arg0,      \* the caller's table as it was when first passed
    rc_out1,      \* reclassify_sv(arg, map)
    rc_out2,      \* reclassify_sv(reclassify_sv(arg, map), map)
    \* ---- the stages run on the feature tables ----
    features,     \* the merged feature rows of all seasons (03, line 486)
    sil,          \* sil[hand][k]: the silhouette score of the k-cluster fit
    ps_file,      \* data/processed/pitcher_seasons.parquet
    sub_file,     \* data/processed/pitcher_seasons_sub_threshold.parquet
    model_files,  \* models/{scaler,kmeans,pca}_<hand>.joblib
    meta_file,    \* models/kmeans_meta.json
    v22_out,      \* models/<year>/ as written by v22_year_analysis
    pc,           \* position of the running stage, "idle" between stages
    models,       \* 04 main: rhp_models / lhp_models
    hand_out,     \* 04 main: rhp_out / lhp_out
    all_pitchers, \* 04 main: all_pitchers
    status,       \* [stage, result] of the stage that ended last
    stage_runs,   \* stages started so far
    cl_runs,      \* complete runs of 04 since 03 last wrote its tables
    fit_rows,     \* every row ever passed to a scaler / k-means / PCA fit
    run_fit,      \* the rows the running (or last) stage fitted on, per hand
    snap,         \* the artifacts as the first run of 04 after 03 left them
    searched,     \* [hand, n, k]: every k a search fitted on n rows so far
    \* ---- find_optimal_k / the per-year search on a table of scores ----
    k_pc,         \* "idle", "ready", "04" (find_optimal_k), "v22" (per-year)
    k_silh,       \* k_silh[k]: the silhouette score of the k-cluster fit
    k_ks,         \* the candidate range <<lo, hi>>
    k_min,        \* min_k
    k_out,        \* the cluster count returned
    \* ---- the standardized values on their way to k-means and PCA ----
    z_pc,         \* "idle", "ready", "done"
    z_in,         \* a value of scaler.transform(X)
    z_out,        \* the value after np.clip and np.nan_to_num
    \* ---- the medoid of a group ----
    md_pc,        \* "idle", "ready", "feature", "pca", "export"
    md_group,     \* the coordinates of the members, in table order
    md_out,       \* the position in the group of the row returned
    \* ---- the rule engine on one trait dictionary ----
    ar_pc,        \* "idle", "ready", "named", "member", "short"
    ar_row,       \* the row of a pitcher-season: usage in percent, whiff, ...
    ar_primary,   \* cluster_archetypes[cid] of the row's cluster
    ar_label,     \* the label returned by _archetype_name / generate_short_name
    ar_out,       \* the row's archetype, sub_archetype and archetype_dna
    \* ---- profile_clusters on a clustered table ----
    pf_pc,        \* "idle", "ready", "named", "assigned", "done"
    pf_df,        \* the clustered table of one year
    pf_names,     \* cluster_archetypes
    pf_out,       \* archetype, sub_archetype, archetype_dna of every row
    pf_profiles,  \* the profiles, keyed by hand and archetype
    \* ---- 03 compute_whiff_rate and compute_velo_and_extras on a table ----
    ve_pc,        \* "idle", "ready", "velo", "rates"
    ve_df,        \* the events handed in
    ve_out,       \* the column(s) computed, by (pitcher, game_year)
    \* ---- run_all.py main ----
    run_pc,       \* "idle", "start", "loop", "step", "exited"
    run_from,     \* --from
    run_started,  \* the steps started so far, in order
    run_results,  \* the return codes of the steps that ended, in order
    run_exit      \* the exit status of the orchestrator (-1: still running)

vars_fe == <<raw, fe_pc, sv_map, next_season, cur_year, df, usage>>
vars_rc == <<rc_pc, rc_map, rc_arg, rc_arg0, rc_out1, rc_out2>>
vars_files == <<ps_file, sub_file, model_files, meta_file, v22_out>>
vars_cl == <<pc, models, hand_out, all_pitchers>>
vars_hist == <<status, stage_runs, cl_runs, fit_rows, run_fit, snap, searched>>
vars_pl == <<features, sil, vars_files, vars_cl, vars_hist>>
vars_k == <<k_pc, k_silh, k_ks, k_min, k_out>>
vars_z == <<z_pc, z_in, z_out>>
vars_md == <<md_pc, md_group, md_out>>
vars_ar == <<ar_pc, ar_row, ar_primary, ar_label, ar_out>>
vars_pf == <<pf_pc, pf_df, pf_names, pf_out, pf_profiles>>
vars_ve == <<ve_pc, ve_df, ve_out>>
vars_run == <<run_pc, run_from, run_started, run_results, run_exit>>
vars_ext == <<vars_k, vars_z, vars_md, vars_ar, vars_pf, vars_ve, vars_run>>

(***************************************************************************)
(* Bounds and program constants                                            *)
(***************************************************************************)
MaxEvents == 3            \* events in the whole corpus / in one table
MaxStageRuns == 3         \* stage executions in one behaviour
MaxScore == 2             \* distinct raised silhouette scores in a table
MaxZ == 12                \* largest finite standardized value, in units
MaxGroup == 3             \* members of a group whose medoid is sought
MaxCoord == 2             \* largest first coordinate of a member
MaxMembers == 3           \* rows of a clustered table given to profile_clusters

PITCH_TYPES == <<"FF", "SI", "FC", "SL", "CH", "CU", "FS", "KC", "ST", "KN">>
SEASONS == <<2015, 2016>>
PFX_Z_CUTOFF == -50
SPEED_CUTOFF == 84
NaN == -1000              \* a missing measurement
MIN_PITCHES == 300
VELO_FLOOR == 80
K_FIRST == 2
K_LAST == 15
MIN_K == 8
X_OFFSET == 500           \* 5.0, in hundredths
CLIP == 1000              \* 10, in hundredths
POS_INF == 1000000        \* +inf among the standardized values
NEG_INF == -1000000       \* -inf among the standardized values
Z_NAN == 9999999          \* nan among the standardized values
V22_MIN_K == 4
V22_MAX_K == 15

Pitchers == {1, 2}
Tracked == {PITCH_TYPES[i] : i \in DOMAIN PITCH_TYPES}
EmptyMap == [p \in {} |-> "ST"]

(***************************************************************************)
(* Small helpers on tables (sequences of rows)                             *)
(***************************************************************************)
RECURSIVE SeqSum(_)
SeqSum(s) == IF s = <<>> THEN 0 ELSE Head(s) + SeqSum(Tail(s))

Range(s) == {s[i] : i \in DOMAIN s}

RECURSIVE Concat(_)
Concat(ss) == IF ss = <<>> THEN <<>> ELSE Head(ss) \o Concat(Tail(ss))

IsSV(e) == e.pitch_type = "SV"
Count(s, P(_)) == Cardinality({i \in DOMAIN s : P(s[i])})

(***************************************************************************)
(* build_sv_mapping                                                        *)
(***************************************************************************)
\* line 48: the SV rows of one file that have both measurements
CompleteSV(rows) ==
    SelectSeq(rows, LAMBDA e : IsSV(e) /\ e.release_speed # NaN /\ e.pfx_z # NaN)

\* lines 42-55: the concatenation over the seasons whose file exists
SvAll(files) ==
    Concat([i \in DOMAIN SEASONS |->
              IF files[SEASONS[i]].exists
              THEN CompleteSV(files[SEASONS[i]].rows) ELSE <<>>])

\* lines 56-60: groupby("pitcher").agg(mean, mean, count), kept as sums
SvAgg(sv_all, p) ==
    LET mine == SelectSeq(sv_all, LAMBDA e : e.pitcher = p)
    IN [speed_sum |-> SeqSum([i \in DOMAIN mine |-> mine[i].release_speed]),
        pfx_z_sum |-> SeqSum([i \in DOMAIN mine |-> mine[i].pfx_z]),
        count     |-> Len(mine)]

\* lines 65-70 with the precedence of the movement rule dropped
SvLabel_SpeedFirst(agg) ==
    IF agg.speed_sum > SPEED_CUTOFF * agg.count THEN "SL"
    ELSE IF agg.pfx_z_sum < PFX_Z_CUTOFF * agg.count THEN "CU"
    ELSE "ST"

\* lines 65-70: avg_pfx_z < -0.50 -> CU, elif avg_speed > 84 -> SL, else ST
SvLabel(agg) ==
    IF agg.pfx_z_sum < PFX_Z_CUTOFF * agg.count THEN "CU"
    ELSE IF agg.speed_sum > SPEED_CUTOFF * agg.count THEN "SL"
    ELSE "ST"

\* line 48 without the dropna: every SV row enters the aggregation
SvPitchers_NoDropna(files) ==
    {p \in Pitchers : \E i \in DOMAIN SEASONS :
        /\ files[SEASONS[i]].exists
        /\ \E e \in Range(files[SEASONS[i]].rows) : IsSV(e) /\ e.pitcher = p}

\* the groups of the aggregation: the pitchers of the rows line 48 kept
SvPitchers(files) == {e.pitcher : e \in Range(SvAll(files))}

build_sv_mapping(files) ==
    LET sv_all == SvAll(files)
    IN IF sv_all = <<>> THEN EmptyMap
       ELSE [p \in SvPitchers(files) |-> SvLabel(SvAgg(sv_all, p))]

(***************************************************************************)
(* reclassify_sv                                                           *)
(***************************************************************************)
\* lines 90-95: the loop over the map; the mask is taken on the table as
\* it was passed (line 83), one pitcher at a time
ApplyMap(t, m) ==
    [i \in DOMAIN t |->
        IF IsSV(t[i]) /\ t[i].pitcher \in DOMAIN m
        THEN [t[i] EXCEPT !.pitch_type = m[t[i].pitcher]]
        ELSE t[i]]

\* lines 98-101: what is still SV becomes ST
DefaultRemaining(t) ==
    [i \in DOMAIN t |->
        IF IsSV(t[i]) THEN [t[i] EXCEPT !.pitch_type = "ST"] ELSE t[i]]

reclassify_sv(t, m) ==
    IF Count(t, IsSV) = 0 THEN t
    ELSE DefaultRemaining(ApplyMap(t, m))

\* line 88 missing: the writes of lines 94 and 100 land in the caller's table
ArgAfterReclassify_NoCopy(t, m) == reclassify_sv(t, m)

\* lines 85-88: the function returns before any write, or writes to a copy;
\* this is the caller's table after the call
ArgAfterReclassify(t, m) == t

(***************************************************************************)
(* process_season, up to compute_pitch_usage                               *)
(***************************************************************************)
\* line 461: rows with a pitch_type
ValidRows(rows) == SelectSeq(rows, LAMBDA e : e.pitch_type # "")

\* lines 466-467 with the guard testing for None only
ReclassStep_NotNone(t, m) == reclassify_sv(t, m)

\* lines 466-467: "if sv_map:" skips the call for an empty map
ReclassStep(t, m) == IF DOMAIN m # {} THEN reclassify_sv(t, m) ELSE t

(***************************************************************************)
(* compute_pitch_usage                                                     *)
(***************************************************************************)
Frac(n, d) == [num |-> n, den |-> d]
FracZero == Frac(0, 1)
FracAdd(a, b) == Frac(a.num * b.den + b.num * a.den, a.den * b.den)
FracIsOne(a) == a.num = a.den
FracEq(a, b) == a.num * b.den = b.num * a.den

Groups(t) == {<<e.pitcher, e.game_year>> : e \in Range(t)}
InGroup(t, g) == SelectSeq(t, LAMBDA e : e.pitcher = g[1] /\ e.game_year = g[2])
TypeCount(t, g, pt) == Count(InGroup(t, g), LAMBDA e : e.pitch_type = pt)

\* lines 115-120: one column per pitch type seen in the table, 0.0 where a
\* group has no pitch of it
Pivot(t, g) ==
    [pt \in {e.pitch_type : e \in Range(t)} |->
        IF TypeCount(t, g, pt) > 0
        THEN Frac(TypeCount(t, g, pt), Len(InGroup(t, g)))
        ELSE FracZero]

\* lines 129-135 alone: only the tracked columns the pivot happens to have
UsageColumns_NoFill(t, g) ==
    [pt \in Tracked \cap DOMAIN Pivot(t, g) |-> Pivot(t, g)[pt]]

\* lines 122-135: add the tracked columns that are missing, keep the tracked
UsageColumns(t, g) ==
    [pt \in Tracked |->
        IF pt \in DOMAIN Pivot(t, g) THEN Pivot(t, g)[pt] ELSE FracZero]

compute_pitch_usage(t) ==
    {[pitcher       |-> g[1],
      game_year     |-> g[2],
      pct           |-> UsageColumns(t, g),
      total_pitches |-> Len(InGroup(t, g))] : g \in Groups(t)}

(***************************************************************************)
(* Feature rows; the split of process_season and the tables 03 main writes *)
(*                                                                         *)
(* One clustering feature is kept, avg_velo_FF in whole mph.  Standardized *)
(* values and PCA coordinates are kept in hundredths, rounded toward zero. *)
(***************************************************************************)
Row(p, y, rhp, tp, velo) ==
    [pitcher |-> p, game_year |-> y, is_rhp |-> rhp, total_pitches |-> tp,
     avg_velo_FF |-> velo, cluster |-> <<>>, pca_x |-> 0]
KeyOf(r) == <<r.pitcher, r.game_year>>
NoFile == [exists |-> FALSE, rows |-> <<>>]
File(rows) == [exists |-> TRUE, rows |-> rows]

\* process_season, lines 489-490
Qualified(feats) == SelectSeq(feats, LAMBDA r : r.total_pitches >= MIN_PITCHES)
SubThreshold(feats) == SelectSeq(feats, LAMBDA r : r.total_pitches < MIN_PITCHES)

\* the mask with the lower end of the band included
DropPositionPlayers_FromZero(rows) ==
    SelectSeq(rows, LAMBDA r : ~(r.avg_velo_FF >= 0 /\ r.avg_velo_FF < VELO_FLOOR))

\* main, lines 568-571 and 602-605
DropPositionPlayers(rows) ==
    SelectSeq(rows, LAMBDA r : ~(r.avg_velo_FF > 0 /\ r.avg_velo_FF < VELO_FLOOR))

(***************************************************************************)
(* The fitted estimators                                                   *)
(***************************************************************************)
Max(S) == CHOOSE m \in S : \A x \in S : x <= m
Min(S) == CHOOSE m \in S : \A x \in S : m <= x
Abs(a) == IF a < 0 THEN -a ELSE a
TruncDiv(a, b) == IF a < 0 THEN -((-a) \div b) ELSE a \div b

RECURSIVE ISqrtIn(_, _, _)
ISqrtIn(v, lo, hi) ==
    IF lo >= hi THEN lo
    ELSE LET mid == (lo + hi + 1) \div 2
         IN IF mid * mid <= v THEN ISqrtIn(v, mid, hi) ELSE ISqrtIn(v, lo, mid - 1)
ISqrt(v) == ISqrtIn(v, 0, 46340)

\* StandardScaler.fit: mean_ and var_ of the column, kept as n, sum, sum of
\* squares, and scale_ (n times the standard deviation, in hundredths)
VarNum(sc) == sc.n * sc.sumsq - sc.sum * sc.sum
WithScale(sc) ==
    [n |-> sc.n, sum |-> sc.sum, sumsq |-> sc.sumsq, scale |-> ISqrt(10000 * VarNum(sc))]
scaler_fit(X) ==
    WithScale([n |-> Len(X), sum |-> SeqSum(X),
               sumsq |-> SeqSum([i \in DOMAIN X |-> X[i] * X[i]])])

\* StandardScaler.transform: (x - mean_) / scale_, scale_ = 1 for a constant column
scaler_transform(sc, x) ==
    LET num == sc.n * x - sc.sum
    IN IF sc.scale = 0 THEN TruncDiv(100 * num, sc.n)
       ELSE TruncDiv(10000 * num, sc.scale)

\* np.clip(X_scaled, -10, 10): nan stays nan, +inf and -inf are clipped like
\* any other value beyond the limits
Clip(z) ==
    IF z = Z_NAN THEN Z_NAN
    ELSE IF z > CLIP THEN CLIP ELSE IF z < -CLIP THEN -CLIP ELSE z

\* np.nan_to_num(X_scaled, nan=0.0, posinf=0.0, neginf=0.0)
NanToNum(z) == IF z \in {Z_NAN, POS_INF, NEG_INF} THEN 0 ELSE z

\* lines 71-72 and 211-212: np.clip, then np.nan_to_num
ClipNanToNum(z) == NanToNum(Clip(z))

\* lines 65-72 and 201-212: the standardized, clipped column of a table
Scaled(sc, rows) ==
    [i \in DOMAIN rows |-> ClipNanToNum(scaler_transform(sc, rows[i].avg_velo_FF))]

\* KMeans(n_clusters = k).fit: k centres determined by the data.  Lloyd's
\* iteration is not reproduced: the centres are the k smallest distinct
\* values (the last one repeated when there are fewer), which keeps what
\* the stage relies on: the fit is a function of the data and of k, equal
\* points share a cluster, and min(k, distinct points) clusters are used.
RECURSIVE SortedDistinct(_)
SortedDistinct(S) ==
    IF S = {} THEN <<>> ELSE <<Min(S)>> \o SortedDistinct(S \ {Min(S)})
KMeansCenters(Z, k) ==
    LET d == SortedDistinct(Range(Z))
    IN [j \in 1..k |-> d[IF j <= Len(d) THEN j ELSE Len(d)]]

\* KMeans.predict: the index of the nearest centre, the first one on a tie
Predict(centers, z) ==
    Min({j \in DOMAIN centers :
           \A i \in DOMAIN centers : Abs(z - centers[j]) <= Abs(z - centers[i])}) - 1

NLabels(Z, k) == Min({k, Cardinality(Range(Z))})

\* KMeans raises for n_samples < n_clusters, silhouette_score for a number
\* of labels outside 2 .. n_samples - 1
SearchFails(Z, ks) ==
    \E k \in ks : Len(Z) < k \/ NLabels(Z, k) < 2 \/ NLabels(Z, k) > Len(Z) - 1

\* the loop of the search (04 lines 39-43, v22 lines 210-214): k is fitted
\* when no smaller k of the range raised
FailsAt(Z, k) == Len(Z) < k \/ NLabels(Z, k) < 2 \/ NLabels(Z, k) > Len(Z) - 1
Tried(Z, ks) == {k \in ks : \A j \in ks : j < k => ~FailsAt(Z, j)}

\* PCA.fit / PCA.transform on the one standardized column: centring
pca_fit(Z) == [mean |-> TruncDiv(SeqSum(Z), Len(Z))]
pca_transform(pca, z) == z - pca.mean

\* idxmax returning the last row holding the maximum
IdxMax_Last(silh, ks) == Max({k \in ks : silh[k] = Max({silh[j] : j \in ks})})

\* DataFrame.idxmax: the first row holding the maximum
IdxMax(silh, ks) == Min({k \in ks : silh[k] = Max({silh[j] : j \in ks})})

K_RANGE == K_FIRST..K_LAST

\* find_optimal_k without the floor: the best score of the whole range
find_optimal_k_NoFloor(silh, ks, min_k) == IdxMax(silh, ks)

\* 04_clustering.py find_optimal_k, lines 46-56
find_optimal_k(silh, ks, min_k) ==
    LET practical == {k \in ks : k >= min_k}
        best == IF practical # {} THEN IdxMax(silh, practical) ELSE IdxMax(silh, ks)
    IN IF best < min_k THEN min_k ELSE best

NoModel ==
    [fitted |-> FALSE, scaler |-> [n |-> 0, sum |-> 0, sumsq |-> 0, scale |-> 0],
     centers |-> <<>>, pca |-> [mean |-> 0], optimal_k |-> 0]

\* the offset of the right-handed partition applied to both
OffsetX_SameSide(prefix, x_raw) == x_raw + X_OFFSET

\* lines 102-106 and 217-220: RHP to the right, LHP to the left
OffsetX(prefix, x_raw) == IF prefix = "R" THEN x_raw + X_OFFSET ELSE -x_raw - X_OFFSET

\* lines 84-106 and 210-220: cluster id and PCA coordinate of each row
Assign(rows, prefix, model) ==
    LET Z == Scaled(model.scaler, rows)
    IN [i \in DOMAIN rows |->
          [rows[i] EXCEPT !.cluster = <<prefix, Predict(model.centers, Z[i])>>,
                          !.pca_x = OffsetX(prefix, pca_transform(model.pca, Z[i]))]]

\* the estimators fitted on a table, for a chosen k (lines 69-81, 93-94)
FitModel(rows, k) ==
    LET sc == scaler_fit([i \in DOMAIN rows |-> rows[i].avg_velo_FF])
        Z  == Scaled(sc, rows)
    IN [fitted |-> TRUE, scaler |-> sc, centers |-> KMeansCenters(Z, k),
        pca |-> pca_fit(Z), optimal_k |-> k]

\* cluster_hand with the search and the final fit limited to what the rows
\* allow (k lowered to n - 1 instead of raising)
cluster_hand_Shrink(rows, prefix, silh) ==
    LET k == Min({find_optimal_k(silh, K_RANGE, MIN_K), Len(rows) - 1})
    IN IF Len(rows) < 3
       THEN [ok |-> FALSE, out |-> <<>>, model |-> NoModel]
       ELSE LET m == FitModel(rows, k)
            IN [ok |-> TRUE, out |-> Assign(rows, prefix, m), model |-> m]

\* cluster_hand, lines 59-115: [ok, out, model]; ok is FALSE when a fit or
\* the silhouette score raises
cluster_hand(rows, prefix, silh) ==
    LET sc == scaler_fit([i \in DOMAIN rows |-> rows[i].avg_velo_FF])
        k  == find_optimal_k(silh, K_RANGE, MIN_K)
    IN IF rows = <<>> \/ SearchFails(Scaled(sc, rows), K_RANGE) \/ Len(rows) < k
       THEN [ok |-> FALSE, out |-> <<>>, model |-> NoModel]
       ELSE LET m == FitModel(rows, k)
            IN [ok |-> TRUE, out |-> Assign(rows, prefix, m), model |-> m]

\* v22_year_analysis.py cluster_single_year, lines 207-275
V22_K_RANGE == V22_MIN_K..V22_MAX_K
\* lines 217-219: the best score of the range, no floor applied afterwards
v22_optimal_k(silh) == IdxMax(silh, V22_K_RANGE)
cluster_single_year(rows, prefix, silh) ==
    LET sc == scaler_fit([i \in DOMAIN rows |-> rows[i].avg_velo_FF])
        k  == v22_optimal_k(silh)
    IN IF rows = <<>> \/ SearchFails(Scaled(sc, rows), V22_K_RANGE) \/ Len(rows) < k
       THEN [ok |-> FALSE, out |-> <<>>, model |-> NoModel]
       ELSE LET m == FitModel(rows, k)
            IN [ok |-> TRUE, out |-> Assign(rows, prefix, m), model |-> m]

\* lines 205-214 with the estimators updated on the rows they are given
\* (partial_fit in place of transform)
FallbackModel_Refit(model, rows) ==
    IF rows = <<>> THEN model
    ELSE [model EXCEPT !.scaler = WithScale(
            [n     |-> model.scaler.n + Len(rows),
             sum   |-> model.scaler.sum
                         + SeqSum([i \in DOMAIN rows |-> rows[i].avg_velo_FF]),
             sumsq |-> model.scaler.sumsq
                         + SeqSum([i \in DOMAIN rows |->
                                     rows[i].avg_velo_FF * rows[i].avg_velo_FF])])]

\* lines 205-214: transform and predict read the estimators and leave them
\* as they are; this is the model of a hand after its sub-threshold rows
\* went through
FallbackModel(model, rows) == model

Hands == {"R", "L"}
HandRows(rows, h) ==
    SelectSeq(rows, LAMBDA r : r.is_rhp = (IF h = "R" THEN 1 ELSE 0))
\* the fits a search makes on the rows of a hand; none on an empty table,
\* where StandardScaler.fit_transform raises first
Searched(h, rows, ks) ==
    IF rows = <<>> THEN {}
    ELSE {[hand |-> h, n |-> Len(rows), k |-> k] :
             k \in Tried(Scaled(scaler_fit([i \in DOMAIN rows |-> rows[i].avg_velo_FF]), rows), ks)}
FitKeys(rows) == {[key |-> KeyOf(r), total_pitches |-> r.total_pitches] : r \in Range(rows)}

(***************************************************************************)
(* Inputs: the raw event files                                             *)
(***************************************************************************)
Ev(p, y, pt, speed, pfx) ==
    [pitcher |-> p, game_year |-> y, pitch_type |-> pt,
     release_speed |-> speed, pfx_z |-> pfx]

\* The events one pitcher can have in one season: a tracked type, an
\* untracked type, and SV with measurements on both sides of, and on, the
\* two cut-offs, or with one measurement missing.
KindsFor(p, y) ==
    << Ev(p, y, "FF", 93, 40),  Ev(p, y, "EP", 60, 20),
       Ev(p, y, "SV", 85, -51), Ev(p, y, "SV", 85, -49),
       Ev(p, y, "SV", 84, -50), Ev(p, y, "SV", 83, -51),
       Ev(p, y, "SV", NaN, -51), Ev(p, y, "SV", 85, NaN) >>

EventKinds ==
    KindsFor(1, 2015) \o KindsFor(1, 2016) \o KindsFor(2, 2015)
      \o KindsFor(2, 2016) \o << Ev(1, 2015, "", 93, 40) >>

\* Row order plays no part in the operations modelled here (masks,
\* group-bys), so corpora are enumerated up to the order of their rows.
RECURSIVE SortedIdx(_, _)
SortedIdx(n, k) ==
    IF n = 0 THEN {<<>>}
    ELSE LET S == SortedIdx(n - 1, k)
         IN S \cup {Append(sj[1], sj[2]) :
                      sj \in {x \in S \X (1..k) :
                                x[1] = <<>> \/ x[1][Len(x[1])] <= x[2]}}

SeasonSet == Range(SEASONS)
RowsOf(c, y) ==
    LET evs == [i \in DOMAIN c |-> EventKinds[c[i]]]
    IN SelectSeq(evs, LAMBDA e : e.game_year = y)

\* Tables and maps handed to reclassify_sv directly
RcKinds == {Ev(p, 2015, pt, 85, -49) : p \in Pitchers, pt \in {"FF", "SV"}}
RECURSIVE SeqsUpTo(_, _)
SeqsUpTo(n, S) ==
    IF n = 0 THEN {<<>>}
    ELSE LET T == SeqsUpTo(n - 1, S)
         IN T \cup {Append(t, e) : t \in {u \in T : Len(u) = n - 1}, e \in S}
RcMaps == UNION {[D -> {"CU", "SL", "ST", "SV"}] : D \in SUBSET Pitchers}

(***************************************************************************)
(* 03_feature_engineering.py main, up to the usage table of each season    *)
(***************************************************************************)
\* The feature rows of a corpus: nR right-handed and nL left-handed
\* qualified pitcher-seasons of 2015 with distinct velocities, the first
\* with exactly MIN_PITCHES pitches (a partition of 16 rows passes the whole
\* search range, one of 15 or fewer does not, one of MIN_K - 1 or none is
\* below the floor); and up to two more rows, each below or at the
\* threshold, one of them with a position player's velocity.
BaseRows(nR, nL) ==
    [i \in 1..nR |-> Row(i, 2015, 1, MIN_PITCHES - 1 + i, 85 + i)]
      \o [i \in 1..nL |-> Row(20 + i, 2015, 0, MIN_PITCHES - 1 + i, 85 + i)]
CandA == { <<>>,
           <<Row(40, 2015, 1, MIN_PITCHES - 1, 90)>>,
           <<Row(40, 2015, 1, MIN_PITCHES, 90)>>,
           <<Row(40, 2015, 1, MIN_PITCHES - 1, 75)>>,
           <<Row(40, 2015, 1, MIN_PITCHES, VELO_FLOOR)>> }
CandB == { <<>>,
           <<Row(41, 2016, 0, MIN_PITCHES - 1, 95)>>,
           <<Row(41, 2016, 0, MIN_PITCHES, 75)>>,
           <<Row(41, 2016, 0, MIN_PITCHES - 1, 0), Row(42, 2016, 0, MIN_PITCHES - 1, 75)>> }
FeatureTables ==
    {BaseRows(nR, nL) \o a \o b :
        nR \in {MIN_K - 1, 15, 16}, nL \in {0, MIN_K - 1, 16}, a \in CandA, b \in CandB}

\* Silhouette tables: the best score below the floor with ties above it, and
\* a single best score above the floor
SilTies == [k \in K_RANGE |-> IF k = 2 THEN 2 ELSE 1]
SilPeak == [k \in K_RANGE |-> IF k = 10 THEN 3 ELSE IF k = 2 THEN 2 ELSE 1]

NoStatus == [stage |-> "none", result |-> "none"]
NoFit == [h \in Hands |-> {}]
NoSnap == [taken |-> FALSE, ps |-> <<>>, models |-> [h \in Hands |-> NoModel], fit |-> NoFit]
NoV22 == [exists |-> FALSE, year |-> 0, rows |-> <<>>, models |-> [h \in Hands |-> NoModel]]
NoMeta == [exists |-> FALSE, rhp_k |-> 0, lhp_k |-> 0]

PlStart ==
    /\ ps_file = NoFile /\ sub_file = NoFile
    /\ model_files = [h \in Hands |-> NoModel]
    /\ meta_file = NoMeta
    /\ v22_out = NoV22
    /\ pc = "idle"
    /\ models = [h \in Hands |-> NoModel]
    /\ hand_out = [h \in Hands |-> <<>>]
    /\ all_pitchers = <<>>
    /\ status = NoStatus
    /\ stage_runs = 0 /\ cl_runs = 0
    /\ fit_rows = {} /\ run_fit = NoFit /\ snap = NoSnap
    /\ searched = {}

PlIdle ==
    /\ features = <<>>
    /\ sil = [h \in Hands |-> SilTies]
    /\ PlStart

FeIdle ==
    /\ raw = [y \in SeasonSet |-> [exists |-> FALSE, rows |-> <<>>]]
    /\ fe_pc = "idle" /\ sv_map = EmptyMap /\ next_season = 1
    /\ cur_year = 0 /\ df = <<>> /\ usage = {}

RcIdle ==
    /\ rc_pc = "idle" /\ rc_map = EmptyMap /\ rc_arg = <<>>
    /\ rc_arg0 = <<>> /\ rc_out1 = <<>> /\ rc_out2 = <<>>

KIdle == k_pc = "idle" /\ k_silh = <<>> /\ k_ks = <<>> /\ k_min = 0 /\ k_out = 0
ZIdle == z_pc = "idle" /\ z_in = 0 /\ z_out = 0
MdIdle == md_pc = "idle" /\ md_group = <<>> /\ md_out = 0
ArIdle ==
    /\ ar_pc = "idle" /\ ar_row = <<>> /\ ar_primary = ""
    /\ ar_label = "" /\ ar_out = <<>>
PfIdle ==
    /\ pf_pc = "idle" /\ pf_df = <<>> /\ pf_names = <<>>
    /\ pf_out = <<>> /\ pf_profiles = <<>>
VeIdle == ve_pc = "idle" /\ ve_df = <<>> /\ ve_out = <<>>
RunIdle ==
    /\ run_pc = "idle" /\ run_from = 0 /\ run_started = <<>>
    /\ run_results = <<>> /\ run_exit = -1
ExtIdle == KIdle /\ ZIdle /\ MdIdle /\ ArIdle /\ PfIdle /\ VeIdle /\ RunIdle

InitFE ==
    /\ \E c \in SortedIdx(MaxEvents, Len(EventKinds)), ex \in SUBSET SeasonSet :
          /\ \A y \in SeasonSet : RowsOf(c, y) # <<>> => y \in ex
          /\ raw = [y \in SeasonSet |-> [exists |-> y \in ex, rows |-> RowsOf(c, y)]]
    /\ fe_pc = "start" /\ sv_map = EmptyMap /\ next_season = 1
    /\ cur_year = 0 /\ df = <<>> /\ usage = {}
    /\ RcIdle
    /\ PlIdle
    /\ ExtIdle

\* main, lines 502-504
BuildSvMapping ==
    /\ fe_pc = "start"
    /\ sv_map' = build_sv_mapping(raw)
    /\ fe_pc' = "seasons"
    /\ UNCHANGED <<raw, next_season, cur_year, df, usage>>
    /\ UNCHANGED <<vars_rc, vars_pl, vars_ext>>

\* main, lines 515-520, and process_season, lines 448-470
ProcessSeason ==
    /\ fe_pc = "seasons"
    /\ LET y == SEASONS[next_season]
       IN /\ cur_year' = y
          /\ \/ /\ ~raw[y].exists
                /\ df' = <<>>
                /\ usage' = {}
             \/ /\ raw[y].exists
                /\ df' = ReclassStep(ValidRows(raw[y].rows), sv_map)
                /\ usage' = compute_pitch_usage(df')
    /\ next_season' = next_season + 1
    /\ fe_pc' = IF next_season = Len(SEASONS) THEN "done" ELSE "seasons"
    /\ UNCHANGED <<raw, sv_map>>
    /\ UNCHANGED <<vars_rc, vars_pl, vars_ext>>

NextFE == BuildSvMapping \/ ProcessSeason

(***************************************************************************)
(* reclassify_sv applied once, and again to its own result                 *)
(***************************************************************************)
InitRC ==
    /\ rc_arg \in SeqsUpTo(MaxEvents, RcKinds)
    /\ rc_map \in RcMaps
    /\ rc_arg0 = rc_arg
    /\ rc_pc = "ready" /\ rc_out1 = <<>> /\ rc_out2 = <<>>
    /\ FeIdle
    /\ PlIdle
    /\ ExtIdle

ReclassifyOnce ==
    /\ rc_pc = "ready"
    /\ rc_out1' = reclassify_sv(rc_arg, rc_map)
    /\ rc_arg' = ArgAfterReclassify(rc_arg, rc_map)
    /\ rc_pc' = "once"
    /\ UNCHANGED <<rc_map, rc_arg0, rc_out2>>
    /\ UNCHANGED <<vars_fe, vars_pl, vars_ext>>

ReclassifyAgain ==
    /\ rc_pc = "once"
    /\ rc_out2' = reclassify_sv(rc_out1, rc_map)
    /\ rc_out1' = ArgAfterReclassify(rc_out1, rc_map)
    /\ rc_pc' = "twice"
    /\ UNCHANGED <<rc_map, rc_arg, rc_arg0>>
    /\ UNCHANGED <<vars_fe, vars_pl, vars_ext>>

NextRC == ReclassifyOnce \/ ReclassifyAgain

vars == <<vars_fe, vars_rc, vars_pl, vars_ext>>
SpecFE == InitFE /\ [][NextFE]_vars
SpecRC == InitRC /\ [][NextRC]_vars

(***************************************************************************)
(* The choice of the cluster count on a table of silhouette scores         *)
(***************************************************************************)
\* Score tables over 2 .. 15 with up to two raised entries, so that the best
\* score lies below or above the floor, alone or tied
SilhTable(p, q, a, b) ==
    [k \in K_RANGE |-> IF k = p THEN a ELSE IF k = q THEN b ELSE 0]
SilhTables ==
    {SilhTable(p, q, a, b) : p \in K_RANGE, q \in K_RANGE, a \in 1..MaxScore, b \in 1..MaxScore}
\* candidate ranges: the two of the code, and ranges that end below or begin
\* above a floor
KRanges == {<<K_FIRST, K_LAST>>, <<V22_MIN_K, V22_MAX_K>>, <<K_FIRST, 5>>,
            <<K_FIRST, 7>>, <<V22_MIN_K, 7>>, <<9, K_LAST>>}
KSet(r) == r[1] .. r[2]

InitK ==
    /\ k_pc = "ready"
    /\ k_silh \in SilhTables
    /\ k_ks \in KRanges
    /\ k_min \in {V22_MIN_K, MIN_K}
    /\ k_out = 0
    /\ FeIdle /\ RcIdle /\ PlIdle
    /\ ZIdle /\ MdIdle /\ ArIdle /\ PfIdle /\ VeIdle /\ RunIdle

\* 04_clustering.py cluster_hand, line 76, with any range and floor
FindOptimalK ==
    /\ k_pc = "ready"
    /\ k_out' = find_optimal_k(k_silh, KSet(k_ks), k_min)
    /\ k_pc' = "04"
    /\ UNCHANGED <<k_silh, k_ks, k_min>>
    /\ UNCHANGED <<vars_fe, vars_rc, vars_pl, vars_z, vars_md, vars_ar, vars_pf, vars_ve, vars_run>>

\* v22_year_analysis.py cluster_single_year, lines 210-219
SearchSingleYear ==
    /\ k_pc = "ready"
    /\ k_ks = <<V22_MIN_K, V22_MAX_K>>
    /\ k_min = V22_MIN_K
    /\ k_out' = v22_optimal_k(k_silh)
    /\ k_pc' = "v22"
    /\ UNCHANGED <<k_silh, k_ks, k_min>>
    /\ UNCHANGED <<vars_fe, vars_rc, vars_pl, vars_z, vars_md, vars_ar, vars_pf, vars_ve, vars_run>>

NextK == FindOptimalK \/ SearchSingleYear
SpecK == InitK /\ [][NextK]_vars

(***************************************************************************)
(* One standardized value between scaler.transform and the estimators      *)
(***************************************************************************)
\* What (x - mean_) / scale_ can be in floating point: a finite value (here
\* in steps of a quarter, within and beyond the clip limits), or inf or nan
\* when the division overflows or mean_ and scale_ themselves are not finite
NonFinite == {POS_INF, NEG_INF, Z_NAN}
ZValues == {25 * i : i \in (-4 * MaxZ) .. (4 * MaxZ)} \cup NonFinite

InitZ ==
    /\ z_pc = "ready"
    /\ z_in \in ZValues
    /\ z_out = 0
    /\ FeIdle /\ RcIdle /\ PlIdle
    /\ KIdle /\ MdIdle /\ ArIdle /\ PfIdle /\ VeIdle /\ RunIdle

\* 04_clustering.py cluster_hand, lines 70-72: a value of a qualified row.
\* fit_transform divides by the scale_ of the very column the value is in, and
\* scale_ squared is at least (x - mean_) squared over n: a deviation that
\* overflows makes scale_ non-finite as well, and the quotient is nan, not inf
ClipQualified ==
    /\ z_pc = "ready"
    /\ z_in \notin {POS_INF, NEG_INF}
    /\ z_out' = ClipNanToNum(z_in)
    /\ z_pc' = "qualified"
    /\ UNCHANGED z_in
    /\ UNCHANGED <<vars_fe, vars_rc, vars_pl, vars_k, vars_md, vars_ar, vars_pf, vars_ve, vars_run>>

\* 04_clustering.py main, lines 210-212: a value of a fallback row, divided
\* by the scale_ fitted on the qualified rows
ClipFallback ==
    /\ z_pc = "ready"
    /\ z_out' = ClipNanToNum(z_in)
    /\ z_pc' = "fallback"
    /\ UNCHANGED z_in
    /\ UNCHANGED <<vars_fe, vars_rc, vars_pl, vars_k, vars_md, vars_ar, vars_pf, vars_ve, vars_run>>

NextZ == ClipQualified \/ ClipFallback
SpecZ == InitZ /\ [][NextZ]_vars

(***************************************************************************)
(* The medoid of a group                                                   *)
(***************************************************************************)
\* cdist(coords, coords, metric='euclidean')[i][j], in hundredths
Euclid(p, q) ==
    ISqrt(10000 * ((p[1] - q[1]) * (p[1] - q[1]) + (p[2] - q[2]) * (p[2] - q[2])))

\* dist_matrix.sum(axis=1)
TotalDists(coords) ==
    [i \in DOMAIN coords |-> SeqSum([j \in DOMAIN coords |-> Euclid(coords[i], coords[j])])]

\* np.argmin returning the last position holding the minimum
ArgMin_Last(a) == Max({i \in DOMAIN a : \A j \in DOMAIN a : a[i] <= a[j]})

\* np.argmin: the first position holding the minimum (positions from 1 here)
ArgMin(a) == Min({i \in DOMAIN a : \A j \in DOMAIN a : a[i] <= a[j]})

\* v22_year_analysis.py profile_clusters, lines 335-343: the position of
\* medoid_row among the members of a cluster
feature_medoid(coords) ==
    IF Len(coords) < 2 THEN 1 ELSE ArgMin(TotalDists(coords))

\* v22_year_analysis.py profile_clusters, lines 419-427: the position of
\* medoid_row in an archetype group; pca_x, pca_y and pca_z are all columns
\* of the table, so len(pca_cols) >= 2
pca_medoid(coords) ==
    IF Len(coords) >= 2 THEN ArgMin(TotalDists(coords)) ELSE 1

\* export_frontend.py _find_medoid, lines 66-81
find_medoid(coords) ==
    IF Len(coords) < 2 THEN 1 ELSE ArgMin(TotalDists(coords))

\* groups of 1 .. MaxGroup members on a small grid; members may coincide
MdPoints == {<<x, y>> : x \in 0..MaxCoord, y \in 0..1}
MdGroups == UNION {[1..n -> MdPoints] : n \in 1..MaxGroup}

InitMD ==
    /\ md_pc = "ready"
    /\ md_group \in MdGroups
    /\ md_out = 0
    /\ FeIdle /\ RcIdle /\ PlIdle
    /\ KIdle /\ ZIdle /\ ArIdle /\ PfIdle /\ VeIdle /\ RunIdle

FeatureMedoid ==
    /\ md_pc = "ready"
    /\ md_out' = feature_medoid(md_group)
    /\ md_pc' = "feature"
    /\ UNCHANGED md_group
    /\ UNCHANGED <<vars_fe, vars_rc, vars_pl, vars_k, vars_z, vars_ar, vars_pf, vars_ve, vars_run>>

PcaMedoid ==
    /\ md_pc = "ready"
    /\ md_out' = pca_medoid(md_group)
    /\ md_pc' = "pca"
    /\ UNCHANGED md_group
    /\ UNCHANGED <<vars_fe, vars_rc, vars_pl, vars_k, vars_z, vars_ar, vars_pf, vars_ve, vars_run>>

FindMedoid ==
    /\ md_pc = "ready"
    /\ md_out' = find_medoid(md_group)
    /\ md_pc' = "export"
    /\ UNCHANGED md_group
    /\ UNCHANGED <<vars_fe, vars_rc, vars_pl, vars_k, vars_z, vars_ar, vars_pf, vars_ve, vars_run>>

NextMD == FeatureMedoid \/ PcaMedoid \/ FindMedoid
SpecMD == InitMD /\ [][NextMD]_vars

(***************************************************************************)
(* The archetype rules (v22_year_analysis.py).  Usage shares are whole     *)
(* percents: t.ff = 41 stands for pct_FF = 0.41.                           *)
(***************************************************************************)
\* _pitcher_traits, lines 273-291: the traits the rules read.  gb, velo,
\* is_sp and spin are in the dictionary too and are read by no rule.
_pitcher_traits(row, hand) ==
    [ff |-> row.ff, si |-> row.si, sl |-> row.sl, cu |-> row.cu, ch |-> row.ch,
     fs |-> row.fs, fc |-> row.fc, st |-> row.st, kc |-> row.kc, kn |-> row.kn,
     whiff |-> row.whiff]

\* _archetype_name with the tests of Yakker and CutCraft in the other order
_archetype_name_YakkerFirst(t, hand) ==
    IF t.kn > 10 THEN "Knuckleball Wizard"
    ELSE IF t.fs > 15 THEN "Split Demon"
    ELSE IF t.kc > 15 THEN "Uncle Charlie"
    ELSE IF t.si > 35 /\ t.ff < 5 THEN "Undertow"
    ELSE IF t.st > 20 THEN "Boomerang"
    ELSE IF t.ch > 20 THEN "Ghost"
    ELSE IF t.si > 35 /\ t.fc > 15 THEN "Snake"
    ELSE IF t.si > 35 /\ t.sl > 18 THEN "Gardener"
    ELSE IF t.si > 50 THEN "Earthworm"
    ELSE IF t.ff > 40 /\ t.sl > 30 THEN "Barnburner"
    ELSE IF t.ff > 40 /\ t.sl > 15 /\ t.cu > 10 THEN "Triple Threat"
    ELSE IF t.cu > 12 THEN "Yakker"
    ELSE IF t.cu > 15 /\ (t.fc > 12 \/ t.sl > 15) THEN "CutCraft"
    ELSE IF t.fc > 15 THEN "Cutman"
    ELSE IF t.sl > 25 THEN "Swordfighter"
    ELSE IF t.ff + t.si > 50 THEN "Heavy Duty"
    ELSE "Kitchen Sink"

\* _archetype_name, lines 501-535
_archetype_name(t, hand) ==
    IF t.kn > 10 THEN "Knuckleball Wizard"
    ELSE IF t.fs > 15 THEN "Split Demon"
    ELSE IF t.kc > 15 THEN "Uncle Charlie"
    ELSE IF t.si > 35 /\ t.ff < 5 THEN "Undertow"
    ELSE IF t.st > 20 THEN "Boomerang"
    ELSE IF t.ch > 20 THEN "Ghost"
    ELSE IF t.si > 35 /\ t.fc > 15 THEN "Snake"
    ELSE IF t.si > 35 /\ t.sl > 18 THEN "Gardener"
    ELSE IF t.si > 50 THEN "Earthworm"
    ELSE IF t.ff > 40 /\ t.sl > 30 THEN "Barnburner"
    ELSE IF t.ff > 40 /\ t.sl > 15 /\ t.cu > 10 THEN "Triple Threat"
    ELSE IF t.cu > 15 /\ (t.fc > 12 \/ t.sl > 15) THEN "CutCraft"
    ELSE IF t.cu > 12 THEN "Yakker"
    ELSE IF t.fc > 15 THEN "Cutman"
    ELSE IF t.sl > 25 THEN "Swordfighter"
    ELSE IF t.ff + t.si > 50 THEN "Heavy Duty"
    ELSE "Kitchen Sink"

\* ARCHETYPE_RULES, lines 542-560: the names in list order ...
ARCHETYPE_RULES ==
    <<"Knuckleball Wizard", "Split Demon", "Uncle Charlie", "Undertow",
      "Boomerang", "Ghost", "Snake", "Gardener", "Earthworm", "Barnburner",
      "Triple Threat", "CutCraft", "Yakker", "Cutman", "Swordfighter",
      "Heavy Duty", "Kitchen Sink">>

\* the tests with the one of Yakker at the threshold of CutCraft
test_fn_YakkerAt15(name, t, hand) ==
    CASE name = "Knuckleball Wizard" -> t.kn > 10
      [] name = "Split Demon"        -> t.fs > 15
      [] name = "Uncle Charlie"      -> t.kc > 15
      [] name = "Undertow"           -> t.si > 35 /\ t.ff < 5
      [] name = "Boomerang"          -> t.st > 20
      [] name = "Ghost"              -> t.ch > 20
      [] name = "Snake"              -> t.si > 35 /\ t.fc > 15
      [] name = "Gardener"           -> t.si > 35 /\ t.sl > 18
      [] name = "Earthworm"          -> t.si > 50
      [] name = "Barnburner"         -> t.ff > 40 /\ t.sl > 30
      [] name = "Triple Threat"      -> t.ff > 40 /\ t.sl > 15 /\ t.cu > 10
      [] name = "CutCraft"           -> t.cu > 15 /\ (t.fc > 12 \/ t.sl > 15)
      [] name = "Yakker"             -> t.cu > 15
      [] name = "Cutman"             -> t.fc > 15
      [] name = "Swordfighter"       -> t.sl > 25
      [] name = "Heavy Duty"         -> t.ff + t.si > 50
      [] name = "Kitchen Sink"       -> TRUE

\* ... the test_fn of each rule ...
test_fn(name, t, hand) ==
    CASE name = "Knuckleball Wizard" -> t.kn > 10
      [] name = "Split Demon"        -> t.fs > 15
      [] name = "Uncle Charlie"      -> t.kc > 15
      [] name = "Undertow"           -> t.si > 35 /\ t.ff < 5
      [] name = "Boomerang"          -> t.st > 20
      [] name = "Ghost"              -> t.ch > 20
      [] name = "Snake"              -> t.si > 35 /\ t.fc > 15
      [] name = "Gardener"           -> t.si > 35 /\ t.sl > 18
      [] name = "Earthworm"          -> t.si > 50
      [] name = "Barnburner"         -> t.ff > 40 /\ t.sl > 30
      [] name = "Triple Threat"      -> t.ff > 40 /\ t.sl > 15 /\ t.cu > 10
      [] name = "CutCraft"           -> t.cu > 15 /\ (t.fc > 12 \/ t.sl > 15)
      [] name = "Yakker"             -> t.cu > 12
      [] name = "Cutman"             -> t.fc > 15
      [] name = "Swordfighter"       -> t.sl > 25
      [] name = "Heavy Duty"         -> t.ff + t.si > 50
      [] name = "Kitchen Sink"       -> TRUE

\* ... and its defining_pitches_fn
defining_fn(name, t) ==
    CASE name = "Knuckleball Wizard" -> t.kn
      [] name = "Split Demon"        -> t.fs
      [] name = "Uncle Charlie"      -> t.kc
      [] name = "Undertow"           -> t.si
      [] name = "Boomerang"          -> t.st
      [] name = "Ghost"              -> t.ch
      [] name = "Snake"              -> t.si + t.fc
      [] name = "Gardener"           -> t.si + t.sl
      [] name = "Earthworm"          -> t.si
      [] name = "Barnburner"         -> t.ff + t.sl
      [] name = "Triple Threat"      -> t.ff + t.sl + t.cu
      [] name = "CutCraft"           -> t.cu + t.fc
      [] name = "Yakker"             -> t.cu
      [] name = "Cutman"             -> t.fc
      [] name = "Swordfighter"       -> t.sl
      [] name = "Heavy Duty"         -> t.ff + t.si
      [] name = "Kitchen Sink"       -> 0

\* lines 374-379: the rules other than the primary and the catch-all that
\* the traits trigger, as (name, score) pairs in list order
RECURSIVE TriggeredFrom(_, _, _, _)
TriggeredFrom(i, t, hand, primary) ==
    IF i > Len(ARCHETYPE_RULES) THEN <<>>
    ELSE LET name == ARCHETYPE_RULES[i]
             rest == TriggeredFrom(i + 1, t, hand, primary)
         IN IF name = primary \/ name = "Kitchen Sink" THEN rest
            ELSE IF test_fn(name, t, hand) THEN <<<<name, defining_fn(name, t)>>>> \o rest
            ELSE rest
Triggered(t, hand, primary) == TriggeredFrom(1, t, hand, primary)

\* a sort by descending score that puts the later of two equal scores first
RECURSIVE SortByScore_Unstable(_)
SortByScore_Unstable(s) ==
    IF s = <<>> THEN <<>>
    ELSE LET top  == Max({s[i][2] : i \in DOMAIN s})
             pick == Max({i \in DOMAIN s : s[i][2] = top})
         IN <<s[pick]>> \o SortByScore_Unstable(SubSeq(s, 1, pick - 1) \o SubSeq(s, pick + 1, Len(s)))

\* line 382: triggered.sort(key=lambda x: x[1], reverse=True); the sort is
\* stable, so pairs of equal score keep their list order
RECURSIVE SortByScore(_)
SortByScore(s) ==
    IF s = <<>> THEN <<>>
    ELSE LET top  == Max({s[i][2] : i \in DOMAIN s})
             pick == Min({i \in DOMAIN s : s[i][2] = top})
         IN <<s[pick]>> \o SortByScore(SubSeq(s, 1, pick - 1) \o SubSeq(s, pick + 1, Len(s)))

\* lines 381-385
sub_archetype(t, hand, primary) ==
    LET triggered == Triggered(t, hand, primary)
    IN IF triggered # <<>> THEN SortByScore(triggered)[1][1] ELSE "Pure"

\* the marker that opens the display string of a hybrid (U+1F9EC)
MUTT_MARK == "dna-emoji"

\* lines 392-398: the display string, as its parts
dna_str(primary, sub, is_mutt) ==
    IF sub = "Pure" /\ ~is_mutt THEN <<primary>>
    ELSE IF is_mutt THEN <<MUTT_MARK, primary, "/", sub>>
    ELSE <<primary, "/", sub>>

\* profile_clusters Step 2 without the test of the members own label: no
\* member is a hybrid
assign_row_NoMutt(prow, primary) ==
    IF prow.total_pitches < 100
    THEN [archetype |-> "Eephus Lobber", sub_archetype |-> "Pure",
          archetype_dna |-> <<"Eephus Lobber">>]
    ELSE LET hand == IF prow.is_rhp = 1 THEN "RHP" ELSE "LHP"
             t    == _pitcher_traits(prow, hand)
             sub  == sub_archetype(t, hand, primary)
         IN [archetype |-> primary, sub_archetype |-> sub,
             archetype_dna |-> dna_str(primary, sub, FALSE)]

\* profile_clusters Step 2, lines 358-402, for one row: what is appended to
\* arch_list, sub_list and dna_list
assign_row(prow, primary) ==
    IF prow.total_pitches < 100
    THEN [archetype |-> "Eephus Lobber", sub_archetype |-> "Pure",
          archetype_dna |-> <<"Eephus Lobber">>]
    ELSE LET hand == IF prow.is_rhp = 1 THEN "RHP" ELSE "LHP"
             t    == _pitcher_traits(prow, hand)
             sub  == sub_archetype(t, hand, primary)
             individual_arch == _archetype_name(t, hand)
             is_mutt == individual_arch # primary
         IN [archetype |-> primary, sub_archetype |-> sub,
             archetype_dna |-> dna_str(primary, sub, is_mutt)]

\* Rows with usage on both sides of every threshold of the rules, the ten
\* shares summing to at most 100 percent; total_pitches on both sides of 100
HandLabels == {"RHP", "LHP"}
UsageSum(r) == r.ff + r.si + r.sl + r.cu + r.ch + r.fs + r.fc + r.st + r.kc + r.kn
ArRows ==
    {r \in [ff : {0, 40, 41}, si : {0, 36, 51}, sl : {0, 16, 19, 26, 31},
            cu : {0, 11, 13, 16}, ch : {0, 21}, fs : {0, 16}, fc : {0, 13, 16},
            st : {0, 21}, kc : {0, 16}, kn : {0, 11}, whiff : {30},
            is_rhp : {1}, total_pitches : {99, 100}] : UsageSum(r) <= 100}
\* what cluster_archetypes can hold for the cluster of a row
ClusterNames == {ARCHETYPE_RULES[i] : i \in DOMAIN ARCHETYPE_RULES} \cup {"Eephus Lobber"}

InitAR ==
    /\ ar_pc = "ready"
    /\ ar_row \in ArRows
    /\ ar_primary = ""
    /\ ar_label = ""
    /\ ar_out = <<>>
    /\ FeIdle /\ RcIdle /\ PlIdle
    /\ KIdle /\ ZIdle /\ MdIdle /\ PfIdle /\ VeIdle /\ RunIdle

\* _archetype_name on the traits of the row (lines 347-348 and 389)
ArchetypeName ==
    /\ ar_pc = "ready"
    /\ \E hand \in HandLabels : ar_label' = _archetype_name(_pitcher_traits(ar_row, hand), hand)
    /\ ar_pc' = "named"
    /\ UNCHANGED <<ar_row, ar_primary, ar_out>>
    /\ UNCHANGED <<vars_fe, vars_rc, vars_pl, vars_k, vars_z, vars_md, vars_pf, vars_ve, vars_run>>

\* Step 2 for the row, in a cluster of any name
AssignRow ==
    /\ ar_pc = "ready"
    /\ \E primary \in ClusterNames :
          /\ ar_primary' = primary
          /\ ar_out' = assign_row(ar_row, primary)
    /\ ar_pc' = "member"
    /\ UNCHANGED <<ar_row, ar_label>>
    /\ UNCHANGED <<vars_fe, vars_rc, vars_pl, vars_k, vars_z, vars_md, vars_pf, vars_ve, vars_run>>

NextAR == ArchetypeName \/ AssignRow
SpecAR == InitAR /\ [][NextAR]_vars

(***************************************************************************)
(* The short names of 05_cluster_naming.py, and the scenario of a pitcher  *)
(* with 40 / 35 / 25 percent usage of three pitch types                    *)
(***************************************************************************)
\* _score_traits, lines 63-96: the traits generate_short_name reads.  The
\* tables have no pct_SV column, so row.get("pct_SV", 0) is 0.
_score_traits(row) ==
    [ff |-> row.ff, si |-> row.si, sl |-> row.sl, cu |-> row.cu, ch |-> row.ch,
     fs |-> row.fs, fc |-> row.fc, st |-> row.st, kc |-> row.kc, sv |-> 0,
     kn |-> row.kn, whiff |-> row.whiff, is_sp |-> row.is_sp]

\* _role_short, lines 54-59
_role_short(is_sp) == IF is_sp > 55 THEN "SP" ELSE IF is_sp < 35 THEN "RP" ELSE "SW"

\* the rules of generate_short_name with Heater-Heavy tested before
\* Flamethrower
short_name_rule_HeaterFirst(t) ==
    IF t.sv > 10 THEN "Screwball Unicorn"
    ELSE IF t.kn > 10 THEN "Knuckleball Wizard"
    ELSE IF t.fs > 15 THEN "Splitter Assassin"
    ELSE IF t.kc > 15 THEN "Knuckle-Curve Sorcerer"
    ELSE IF t.st > 20 THEN "Sweeper Merchant"
    ELSE IF t.ch > 20 THEN "Circle-Change Phantom"
    ELSE IF t.si > 40 /\ t.ff < 5 THEN "Sinker Ghost"
    ELSE IF t.si > 35 /\ t.fc > 15 THEN "Sinker-Cutter"
    ELSE IF t.si > 35 /\ t.sl > 18 THEN "Earthworm"
    ELSE IF t.si > 35 THEN "Sinker Savant"
    ELSE IF t.ff > 45 /\ t.sl > 30 THEN "Gas & Snap"
    ELSE IF t.ff > 40 /\ t.sl > 15 /\ t.cu > 10 THEN "Triple Threat"
    ELSE IF t.cu > 15 /\ t.fc > 12 THEN "Cutter-Curve Craftsman"
    ELSE IF t.cu > 12 /\ t.is_sp > 55 THEN "Uncle Charlie"
    ELSE IF t.cu > 12 THEN "Yakker"
    ELSE IF t.fc > 15 THEN "Cutter Carver"
    ELSE IF t.ff + t.si > 55 THEN "Heater-Heavy"
    ELSE IF t.ff + t.si > 55 /\ t.whiff > 25 THEN "Flamethrower"
    ELSE IF t.ch + t.fs > 15 THEN "Offspeed Wizard"
    ELSE "Kitchen Sink"

\* generate_short_name, lines 220-260: the rule that names the row
short_name_rule(t) ==
    IF t.sv > 10 THEN "Screwball Unicorn"
    ELSE IF t.kn > 10 THEN "Knuckleball Wizard"
    ELSE IF t.fs > 15 THEN "Splitter Assassin"
    ELSE IF t.kc > 15 THEN "Knuckle-Curve Sorcerer"
    ELSE IF t.st > 20 THEN "Sweeper Merchant"
    ELSE IF t.ch > 20 THEN "Circle-Change Phantom"
    ELSE IF t.si > 40 /\ t.ff < 5 THEN "Sinker Ghost"
    ELSE IF t.si > 35 /\ t.fc > 15 THEN "Sinker-Cutter"
    ELSE IF t.si > 35 /\ t.sl > 18 THEN "Earthworm"
    ELSE IF t.si > 35 THEN "Sinker Savant"
    ELSE IF t.ff > 45 /\ t.sl > 30 THEN "Gas & Snap"
    ELSE IF t.ff > 40 /\ t.sl > 15 /\ t.cu > 10 THEN "Triple Threat"
    ELSE IF t.cu > 15 /\ t.fc > 12 THEN "Cutter-Curve Craftsman"
    ELSE IF t.cu > 12 /\ t.is_sp > 55 THEN "Uncle Charlie"
    ELSE IF t.cu > 12 THEN "Yakker"
    ELSE IF t.fc > 15 THEN "Cutter Carver"
    ELSE IF t.ff + t.si > 55 /\ t.whiff > 25 THEN "Flamethrower"
    ELSE IF t.ff + t.si > 55 THEN "Heater-Heavy"
    ELSE IF t.ch + t.fs > 15 THEN "Offspeed Wizard"
    ELSE "Kitchen Sink"

\* generate_short_name, lines 214-260: f"{zp}<rule> {role}", as the rule and
\* the role; the zone prefix zp is read from the location traits alone
generate_short_name(row) ==
    LET t == _score_traits(row)
    IN <<short_name_rule(t), _role_short(t.is_sp)>>

\* the nine tracked pitch types other than the four-seam fastball
OtherTypes == {"si", "sl", "cu", "ch", "fs", "fc", "st", "kc", "kn"}
Share(p, second, third) == IF p = second THEN 35 ELSE IF p = third THEN 25 ELSE 0
\* the pitcher of the scenario: 40 percent four-seam, 35 percent of a second
\* type, 25 percent of a third
ScenarioRow(second, third, whiff, is_sp) ==
    [ff |-> 40, si |-> Share("si", second, third), sl |-> Share("sl", second, third),
     cu |-> Share("cu", second, third), ch |-> Share("ch", second, third),
     fs |-> Share("fs", second, third), fc |-> Share("fc", second, third),
     st |-> Share("st", second, third), kc |-> Share("kc", second, third),
     kn |-> Share("kn", second, third), whiff |-> whiff, is_sp |-> is_sp,
     is_rhp |-> 1, total_pitches |-> 400]
ScenarioRows ==
    {ScenarioRow(second, third, whiff, is_sp) :
        second \in OtherTypes, third \in OtherTypes, whiff \in {0, 25, 26, 30},
        is_sp \in {0, 50, 100}} \ 
    {ScenarioRow(p, p, whiff, is_sp) : p \in OtherTypes, whiff \in {0, 25, 26, 30}, is_sp \in {0, 50, 100}}

InitSC ==
    /\ ar_pc = "ready"
    /\ ar_row \in ScenarioRows
    /\ ar_primary = ""
    /\ ar_label = ""
    /\ ar_out = <<>>
    /\ FeIdle /\ RcIdle /\ PlIdle
    /\ KIdle /\ ZIdle /\ MdIdle /\ PfIdle /\ VeIdle /\ RunIdle

\* generate_short_name on the row
ShortName ==
    /\ ar_pc = "named"
    /\ ar_out' = generate_short_name(ar_row)
    /\ ar_pc' = "short"
    /\ UNCHANGED <<ar_row, ar_primary, ar_label>>
    /\ UNCHANGED <<vars_fe, vars_rc, vars_pl, vars_k, vars_z, vars_md, vars_pf, vars_ve, vars_run>>

NextSC == ArchetypeName \/ ShortName
SpecSC == InitSC /\ [][NextSC]_vars

(***************************************************************************)
(* profile_clusters on a clustered table (v22_year_analysis.py 294-498)    *)
(***************************************************************************)
Indices(tbl) == [i \in 1..Len(tbl) |-> i]

\* df[df["cluster"] == cid]: the rows of a cluster, as positions in df
MembersOf(tbl, cid) == SelectSeq(Indices(tbl), LAMBDA i : tbl[i].cluster = cid)

\* members[feature_cols]: the features the rows here differ in
FeatureCoords(tbl, idx) == [n \in DOMAIN idx |-> <<tbl[idx[n]].ff, tbl[idx[n]].ch>>]

\* Step 1 without the guard on the mean of total_pitches
cluster_archetype_NoGuard(tbl, cid) ==
    LET members == MembersOf(tbl, cid)
        medoid_row == tbl[members[feature_medoid(FeatureCoords(tbl, members))]]
        hand == IF cid[1] = "R" THEN "RHP" ELSE "LHP"
    IN _archetype_name(_pitcher_traits(medoid_row, hand), hand)

\* Step 1, lines 324-348: the name of a cluster
cluster_archetype(tbl, cid) ==
    LET members == MembersOf(tbl, cid)
        pitches == [n \in DOMAIN members |-> tbl[members[n]].total_pitches]
    IN IF SeqSum(pitches) < 100 * Len(members) THEN "Eephus Lobber"
       ELSE LET medoid_row == tbl[members[feature_medoid(FeatureCoords(tbl, members))]]
                hand == IF cid[1] = "R" THEN "RHP" ELSE "LHP"
            IN _archetype_name(_pitcher_traits(medoid_row, hand), hand)

cluster_archetypes(tbl) ==
    [cid \in {tbl[i].cluster : i \in DOMAIN tbl} |-> cluster_archetype(tbl, cid)]

\* Step 2, lines 358-402: cluster_archetypes.get(cid, "Kitchen Sink") names
\* the primary archetype of every row
assign_rows(tbl, names) ==
    [i \in DOMAIN tbl |->
        assign_row(tbl[i], IF tbl[i].cluster \in DOMAIN names
                          THEN names[tbl[i].cluster] ELSE "Kitchen Sink")]

\* line 411: df["is_rhp"].map({1: "RHP", 0: "LHP"})
HandLabel(row) == IF row.is_rhp = 1 THEN "RHP" ELSE "LHP"

\* the rows of a (hand, archetype) group, as positions in df
ProfileGroup(tbl, out, key) ==
    SelectSeq(Indices(tbl), LAMBDA i : HandLabel(tbl[i]) = key[1] /\ out[i].archetype = key[2])

\* pca_x, pca_y of the rows: the projection keeps the two features the rows
\* here differ in
PcaCoords(tbl, idx) == [n \in DOMAIN idx |-> <<tbl[idx[n]].ff, tbl[idx[n]].ch>>]

\* line 467: the rows of the group whose display string holds the marker
mutt_count(out, group) ==
    Cardinality({n \in DOMAIN group : MUTT_MARK \in Range(out[group[n]].archetype_dna)})

\* lines 439-449: the columns of the medoid row under the keys of the
\* traits dictionary, rounded to three decimals (the shares here are whole
\* percents); gb, velo, spin and is_sp, read by no rule, are left out
medoid_traits(medoid_row) ==
    [ff |-> medoid_row.ff, si |-> medoid_row.si, sl |-> medoid_row.sl,
     cu |-> medoid_row.cu, ch |-> medoid_row.ch, fs |-> medoid_row.fs,
     fc |-> medoid_row.fc, st |-> medoid_row.st, kc |-> medoid_row.kc,
     kn |-> medoid_row.kn, whiff |-> medoid_row.whiff]

\* Step 3, lines 410-484: one profile per (hand, archetype) group.  The
\* display fields emoji, role, top_pitches and examples and the
\* sub-archetype counts are left out.
build_profiles(tbl, out) ==
    [key \in {<<HandLabel(tbl[i]), out[i].archetype>> : i \in DOMAIN tbl} |->
        LET group == ProfileGroup(tbl, out, key)
        IN [name |-> key[2], hand |-> key[1], count |-> Len(group),
            mutt_count |-> mutt_count(out, group),
            medoid |-> group[pca_medoid(PcaCoords(tbl, group))],
            traits |-> medoid_traits(tbl[group[pca_medoid(PcaCoords(tbl, group))]])]]

\* Rows of one year: a cluster of either hand, total_pitches below, at and
\* above 100, and three pitch mixes (Kitchen Sink, Heavy Duty, and Ghost
\* with Heavy Duty as second rule)
PfRow(cid, rhp, tp, ff, ch) ==
    [cluster |-> cid, is_rhp |-> rhp, total_pitches |-> tp,
     ff |-> ff, si |-> 0, sl |-> 0, cu |-> 0, ch |-> ch, fs |-> 0, fc |-> 0,
     st |-> 0, kc |-> 0, kn |-> 0, whiff |-> 30]
PfRows ==
    {PfRow(c[1], c[2], tp, mix[1], mix[2]) :
        c \in {<<<<"R", 0>>, 1>>, <<<<"L", 0>>, 0>>}, tp \in {50, 100, 400},
        mix \in {<<0, 0>>, <<60, 0>>, <<60, 30>>}}
PfTables == UNION {[1..n -> PfRows] : n \in 1..MaxMembers}

InitPF ==
    /\ pf_pc = "ready"
    /\ pf_df \in PfTables
    /\ pf_names = <<>>
    /\ pf_out = <<>>
    /\ pf_profiles = <<>>
    /\ FeIdle /\ RcIdle /\ PlIdle
    /\ KIdle /\ ZIdle /\ MdIdle /\ ArIdle /\ VeIdle /\ RunIdle

NameClusters ==
    /\ pf_pc = "ready"
    /\ pf_names' = cluster_archetypes(pf_df)
    /\ pf_pc' = "named"
    /\ UNCHANGED <<pf_df, pf_out, pf_profiles>>
    /\ UNCHANGED <<vars_fe, vars_rc, vars_pl, vars_k, vars_z, vars_md, vars_ar, vars_ve, vars_run>>

AssignRows ==
    /\ pf_pc = "named"
    /\ pf_out' = assign_rows(pf_df, pf_names)
    /\ pf_pc' = "assigned"
    /\ UNCHANGED <<pf_df, pf_names, pf_profiles>>
    /\ UNCHANGED <<vars_fe, vars_rc, vars_pl, vars_k, vars_z, vars_md, vars_ar, vars_ve, vars_run>>

BuildProfiles ==
    /\ pf_pc = "assigned"
    /\ pf_profiles' = build_profiles(pf_df, pf_out)
    /\ pf_pc' = "done"
    /\ UNCHANGED <<pf_df, pf_names, pf_out>>
    /\ UNCHANGED <<vars_fe, vars_rc, vars_pl, vars_k, vars_z, vars_md, vars_ar, vars_ve, vars_run>>

NextPF == NameClusters \/ AssignRows \/ BuildProfiles
SpecPF == InitPF /\ [][NextPF]_vars

(***************************************************************************)
(* 03_feature_engineering.py compute_whiff_rate, compute_velo_and_extras   *)
(***************************************************************************)
RECURSIVE GCD(_, _)
GCD(a, b) == IF b = 0 THEN a ELSE GCD(b, a % b)
\* a quotient of two counts or of a sum and a count, in lowest terms
Reduced(n, d) == Frac(n \div GCD(n, d), d \div GCD(n, d))
FracLeq(a, b) == a.num * b.den <= b.num * a.den
\* nan among the quotients: 0 / 0
Missing == Frac(0, 0)

\* config.py, lines 64-69
SWING_DESCRIPTIONS ==
    {"swinging_strike", "swinging_strike_blocked", "foul", "foul_tip", "foul_bunt",
     "missed_bunt", "hit_into_play", "hit_into_play_no_out", "hit_into_play_score"}
WHIFF_DESCRIPTIONS == {"swinging_strike", "swinging_strike_blocked"}

\* Series.clip(lower=lo)
clip_lower(x, lo) == IF x < lo THEN lo ELSE x

\* a quotient of two count columns without the clip: 0 / 0 is nan
Rate_NoClip(num, den) == IF den = 0 THEN Missing ELSE Reduced(num, den)

\* lines 199, 248, 259: count / denominator.clip(lower=1)
Rate(num, den) == Reduced(num, clip_lower(den, 1))

\* compute_whiff_rate, lines 188-200
compute_whiff_rate(t) ==
    [g \in Groups(t) |->
        Rate(Count(InGroup(t, g), LAMBDA e : e.description \in WHIFF_DESCRIPTIONS),
             Count(InGroup(t, g), LAMBDA e : e.description \in SWING_DESCRIPTIONS))]

\* Series.mean of release_speed: missing values are skipped, nan when none
\* is left
MeanSpeed(t) ==
    LET rec == SelectSeq(t, LAMBDA e : e.release_speed # NaN)
    IN IF rec = <<>> THEN Missing
       ELSE Reduced(SeqSum([i \in DOMAIN rec |-> rec[i].release_speed]), Len(rec))

\* lines 213-215: one row per group that has FF rows
velo_ff(t) ==
    LET ff == SelectSeq(t, LAMBDA e : e.pitch_type = "FF")
    IN [g \in Groups(ff) |-> MeanSpeed(InGroup(ff, g))]

\* lines 218-223: the mean speed per group and pitch type over the rows with
\* a speed (groupby leaves out the rows without a pitch type)
all_velo(t) ==
    LET rec == SelectSeq(t, LAMBDA e : e.release_speed # NaN /\ e.pitch_type # "")
    IN [k \in {<<e.pitcher, e.game_year, e.pitch_type>> : e \in Range(rec)} |->
          MeanSpeed(SelectSeq(InGroup(rec, <<k[1], k[2]>>),
                              LAMBDA e : e.pitch_type = k[3]))]

\* the last row of each group in descending order: the slowest pitch type
fastest_Slowest(t) ==
    LET av == all_velo(t)
    IN [g \in {<<k[1], k[2]>> : k \in DOMAIN av} |->
          LET means == {av[k] : k \in {j \in DOMAIN av : <<j[1], j[2]>> = g}}
          IN CHOOSE x \in means : \A y \in means : FracLeq(x, y)]

\* lines 224-229: sort_values descending, drop_duplicates keep="first"
fastest(t) ==
    LET av == all_velo(t)
    IN [g \in {<<k[1], k[2]>> : k \in DOMAIN av} |->
          LET means == {av[k] : k \in {j \in DOMAIN av : <<j[1], j[2]>> = g}}
          IN CHOOSE x \in means : \A y \in means : FracLeq(y, x)]

\* lines 231-235: outer merge, then fillna with the fallback column
compute_velo(t) ==
    LET vf == velo_ff(t)
        fb == fastest(t)
    IN [g \in DOMAIN vf \cup DOMAIN fb |->
          LET a == IF g \in DOMAIN vf THEN vf[g] ELSE Missing
              b == IF g \in DOMAIN fb THEN fb[g] ELSE Missing
          IN IF a # Missing THEN a ELSE b]

\* lines 242-249
zone_rate(t) ==
    LET df_zone == SelectSeq(t, LAMBDA e : e.zone # NaN)
    IN [g \in Groups(df_zone) |->
          Rate(Count(InGroup(df_zone, g), LAMBDA e : e.zone >= 1 /\ e.zone <= 9),
               Len(InGroup(df_zone, g)))]

\* lines 252-262
groundball_rate(t) ==
    LET batted == SelectSeq(t, LAMBDA e : e.type = "X" /\ e.bb_type # "")
    IN IF Len(batted) > 0
       THEN [g \in Groups(batted) |->
               Rate(Count(InGroup(batted, g), LAMBDA e : e.bb_type = "ground_ball"),
                    Len(InGroup(batted, g)))]
       ELSE <<>>

\* process_season, lines 473-483 (left merges on the groups of the usage
\* table) and main, lines 564-566 (fillna(0))
filled_rates(t) ==
    LET Col(c, g) == IF g \in DOMAIN c /\ c[g] # Missing THEN c[g] ELSE FracZero
    IN [g \in Groups(t) |->
          [whiff_rate |-> Col(compute_whiff_rate(t), g),
           zone_rate |-> Col(zone_rate(t), g),
           groundball_rate |-> Col(groundball_rate(t), g)]]

PitchEv(p, pt, speed, desc, zone, type, bb) ==
    [pitcher |-> p, game_year |-> 2015, pitch_type |-> pt, release_speed |-> speed,
     description |-> desc, zone |-> zone, type |-> type, bb_type |-> bb]

\* The events of the velocity corpora: two pitchers, three pitch types or
\* none, two speeds or none
VeloTypes == <<"FF", "SI", "CU", "">>
VeloSpeeds == <<NaN, 88, 94>>
VeloKind(k) ==
    PitchEv(1 + ((k - 1) % 2), VeloTypes[1 + (((k - 1) \div 2) % 4)],
            VeloSpeeds[1 + (((k - 1) \div 8) % 3)], "ball", NaN, "B", "")
\* The events of the rate corpora: a whiff, another swing or no swing; in
\* the zone, out of it or without a zone; a ground ball, another batted
\* ball, a batted ball without a type, or no batted ball
RateDescs == <<"swinging_strike", "foul", "ball">>
RateZones == <<NaN, 5, 12>>
RateBatted == << <<"X", "ground_ball">>, <<"X", "fly_ball">>, <<"X", "">>, <<"S", "">> >>
RateKind(k) ==
    PitchEv(1 + ((k - 1) % 2), "FF", 94, RateDescs[1 + (((k - 1) \div 2) % 3)],
            RateZones[1 + (((k - 1) \div 6) % 3)],
            RateBatted[1 + (((k - 1) \div 18) % 4)][1],
            RateBatted[1 + (((k - 1) \div 18) % 4)][2])
VeCorpora(n) ==
    {[i \in DOMAIN c |-> VeloKind(c[i])] : c \in SortedIdx(n, 24)}
      \cup {[i \in DOMAIN c |-> RateKind(c[i])] : c \in SortedIdx(n, 72)}

InitVE ==
    /\ ve_pc = "ready" /\ ve_df \in VeCorpora(MaxEvents) /\ ve_out = <<>>
    /\ FeIdle /\ RcIdle /\ PlIdle
    /\ KIdle /\ ZIdle /\ MdIdle /\ ArIdle /\ PfIdle /\ RunIdle

\* compute_velo_and_extras, lines 210-235
ComputeVelo ==
    /\ ve_pc = "ready"
    /\ ve_out' = compute_velo(ve_df)
    /\ ve_pc' = "velo"
    /\ UNCHANGED ve_df
    /\ UNCHANGED <<vars_fe, vars_rc, vars_pl, vars_k, vars_z, vars_md, vars_ar, vars_pf, vars_run>>

\* compute_whiff_rate and the two rates of compute_velo_and_extras, with
\* the columns main saves
ComputeRates ==
    /\ ve_pc = "ready"
    /\ ve_out' = [whiff |-> compute_whiff_rate(ve_df), zone |-> zone_rate(ve_df),
                  gb |-> groundball_rate(ve_df), saved |-> filled_rates(ve_df)]
    /\ ve_pc' = "rates"
    /\ UNCHANGED ve_df
    /\ UNCHANGED <<vars_fe, vars_rc, vars_pl, vars_k, vars_z, vars_md, vars_ar, vars_pf, vars_run>>

NextVE == ComputeVelo \/ ComputeRates
SpecVE == InitVE /\ [][NextVE]_vars

(***************************************************************************)
(* run_all.py                                                              *)
(***************************************************************************)
\* lines 15-22
STEPS ==
    <<"01_fetch_statcast.py", "02_fetch_pitcher_roles.py", "03_feature_engineering.py",
      "04_clustering.py", "05_cluster_naming.py", "06_hitter_vs_cluster.py">>

\* the values of --from tried: every step, and integers on both sides of the
\* range
StartSteps == -1 .. (Len(STEPS) + 2)
\* what subprocess.run can report for a step: success, exit codes of a
\* failure, and the negative signal number of a step that was killed
ReturnCodes == {0, 1, 2, 3, 127, -9, -15}
NoExit == -1

\* sys.exit(n): the exit status is the low byte of n
exit_status(n) == n % 256

\* the loop with check=False: a failed step is followed by the next one
after_step_KeepGoing(i, returncode) ==
    IF i = Len(STEPS) THEN [pc |-> "exited", exit |-> 0]
    ELSE [pc |-> "loop", exit |-> NoExit]

\* lines 55-72, after subprocess.run returned or raised for step i:
\* CalledProcessError ends main with sys.exit(e.returncode); the end of the
\* loop ends it with status 0
after_step(i, returncode) ==
    IF returncode # 0 THEN [pc |-> "exited", exit |-> exit_status(returncode)]
    ELSE IF i = Len(STEPS) THEN [pc |-> "exited", exit |-> 0]
    ELSE [pc |-> "loop", exit |-> NoExit]

InitRun ==
    /\ run_pc = "start" /\ run_from \in StartSteps
    /\ run_started = <<>> /\ run_results = <<>> /\ run_exit = NoExit
    /\ FeIdle /\ RcIdle /\ PlIdle
    /\ KIdle /\ ZIdle /\ MdIdle /\ ArIdle /\ PfIdle /\ VeIdle

\* main, lines 28-40
ParseArgs ==
    /\ run_pc = "start"
    /\ IF run_from - 1 < 0 \/ run_from - 1 >= Len(STEPS)
       THEN run_pc' = "exited" /\ run_exit' = 1
       ELSE run_pc' = "loop" /\ UNCHANGED run_exit
    /\ UNCHANGED <<run_from, run_started, run_results>>
    /\ UNCHANGED <<vars_fe, vars_rc, vars_pl, vars_k, vars_z, vars_md, vars_ar, vars_pf, vars_ve>>

\* main, lines 46-60: the next step of steps_to_run is started
StartStep ==
    /\ run_pc = "loop"
    /\ run_started' = Append(run_started, run_from + Len(run_started))
    /\ run_pc' = "step"
    /\ UNCHANGED <<run_from, run_results, run_exit>>
    /\ UNCHANGED <<vars_fe, vars_rc, vars_pl, vars_k, vars_z, vars_md, vars_ar, vars_pf, vars_ve>>

\* main, lines 56-72: the step ends
StepEnds ==
    /\ run_pc = "step"
    /\ \E returncode \in ReturnCodes :
          /\ run_results' = Append(run_results, returncode)
          /\ run_pc' = after_step(run_started[Len(run_started)], returncode).pc
          /\ run_exit' = after_step(run_started[Len(run_started)], returncode).exit
    /\ UNCHANGED <<run_from, run_started>>
    /\ UNCHANGED <<vars_fe, vars_rc, vars_pl, vars_k, vars_z, vars_md, vars_ar, vars_pf, vars_ve>>

NextRun == ParseArgs \/ StartStep \/ StepEnds
SpecRun == InitRun /\ [][NextRun]_vars

(***************************************************************************)
(* The stages on the feature tables                                        *)
(***************************************************************************)
Init ==
    /\ features \in FeatureTables
    /\ sil \in [Hands -> {SilTies, SilPeak}]
    /\ PlStart
    /\ FeIdle
    /\ RcIdle
    /\ ExtIdle

Others == UNCHANGED <<vars_fe, vars_rc, features, sil, vars_ext>>
CanStart == pc = "idle" /\ stage_runs < MaxStageRuns

\* 03_feature_engineering.py main, lines 513-612, from the merged rows on
FeatureStage ==
    /\ CanStart
    /\ stage_runs' = stage_runs + 1
    /\ IF Qualified(features) = <<>>
       THEN /\ status' = [stage |-> "03", result |-> "nodata"]
            /\ UNCHANGED <<ps_file, sub_file, cl_runs, snap>>
       ELSE /\ ps_file' = File(DropPositionPlayers(Qualified(features)))
            /\ sub_file' = IF SubThreshold(features) # <<>>
                           THEN File(DropPositionPlayers(SubThreshold(features)))
                           ELSE sub_file
            /\ status' = [stage |-> "03", result |-> "ok"]
            /\ cl_runs' = 0
            /\ snap' = NoSnap
    /\ UNCHANGED <<model_files, meta_file, v22_out, vars_cl, fit_rows, run_fit, searched>>
    /\ Others

\* 04_clustering.py main, lines 119-134
ClLoad ==
    /\ CanStart
    /\ stage_runs' = stage_runs + 1
    /\ run_fit' = NoFit
    /\ models' = [h \in Hands |-> NoModel]
    /\ hand_out' = [h \in Hands |-> <<>>]
    /\ all_pitchers' = <<>>
    /\ \/ /\ ~ps_file.exists
          /\ pc' = "idle"
          /\ status' = [stage |-> "04", result |-> "error"]
       \/ /\ ps_file.exists
          /\ pc' = "loaded"
          /\ UNCHANGED status
    /\ UNCHANGED <<vars_files, cl_runs, fit_rows, snap, searched>>
    /\ Others

\* main, lines 137-142: cluster_hand for one hand, RHP first
ClusterHand(h, at, then) ==
    /\ pc = at
    /\ LET rows == HandRows(ps_file.rows, h)
           res  == cluster_hand(rows, h, sil[h])
       IN /\ fit_rows' = fit_rows \cup FitKeys(rows)
          /\ run_fit' = [run_fit EXCEPT ![h] = FitKeys(rows)]
          /\ searched' = searched \cup Searched(h, rows, K_RANGE)
          /\ \/ /\ ~res.ok
                /\ pc' = "idle"
                /\ status' = [stage |-> "04", result |-> "error"]
                /\ UNCHANGED <<models, hand_out>>
             \/ /\ res.ok
                /\ pc' = then
                /\ models' = [models EXCEPT ![h] = res.model]
                /\ hand_out' = [hand_out EXCEPT ![h] = res.out]
                /\ UNCHANGED status
    /\ UNCHANGED <<vars_files, all_pitchers, stage_runs, cl_runs, snap>>
    /\ Others

ClClusterR == ClusterHand("R", "loaded", "clusteredR")
ClClusterL == ClusterHand("L", "clusteredR", "clustered")

\* main, lines 144-171: the models, the table and the meta file are written
ClSave ==
    /\ pc = "clustered"
    /\ all_pitchers' = hand_out["R"] \o hand_out["L"]
    /\ model_files' = models
    /\ ps_file' = File(all_pitchers')
    /\ meta_file' = [exists |-> TRUE, rhp_k |-> models["R"].optimal_k,
                     lhp_k |-> models["L"].optimal_k]
    /\ pc' = "saved"
    /\ UNCHANGED <<sub_file, v22_out, models, hand_out, vars_hist>>
    /\ Others

\* main, lines 176-235: the sub-threshold rows are assigned to the nearest
\* cluster of their hand and appended to the table
ClFallback ==
    /\ pc = "saved"
    /\ LET sub(h) == IF sub_file.exists THEN HandRows(sub_file.rows, h) ELSE <<>>
           sub_assigned == Assign(sub("R"), "R", models["R"])
                             \o Assign(sub("L"), "L", models["L"])
       IN /\ models' = [h \in Hands |-> FallbackModel(models[h], sub(h))]
          /\ IF sub_assigned # <<>>
             THEN /\ all_pitchers' = all_pitchers \o sub_assigned
                  /\ ps_file' = File(all_pitchers')
             ELSE UNCHANGED <<all_pitchers, ps_file>>
    /\ pc' = "idle"
    /\ status' = [stage |-> "04", result |-> "ok"]
    /\ cl_runs' = cl_runs + 1
    /\ snap' = IF cl_runs = 0
               THEN [taken |-> TRUE, ps |-> ps_file'.rows, models |-> model_files,
                     fit |-> run_fit]
               ELSE snap
    /\ UNCHANGED <<sub_file, model_files, meta_file, v22_out, hand_out,
                   stage_runs, fit_rows, run_fit, searched>>
    /\ Others

\* v22_year_analysis.py main, lines 637-692 and 730-759, for one year
YearAnalysis(y) ==
    /\ CanStart
    /\ stage_runs' = stage_runs + 1
    /\ LET rows == SelectSeq(ps_file.rows, LAMBDA r : r.game_year = y)
           rhp  == cluster_single_year(HandRows(rows, "R"), "R", sil["R"])
           lhp  == cluster_single_year(HandRows(rows, "L"), "L", sil["L"])
       IN \/ /\ ~ps_file.exists
             /\ status' = [stage |-> "v22", result |-> "error"]
             /\ UNCHANGED <<v22_out, fit_rows, run_fit, searched>>
          \/ /\ ps_file.exists
             /\ ~rhp.ok
             /\ status' = [stage |-> "v22", result |-> "error"]
             /\ fit_rows' = fit_rows \cup FitKeys(HandRows(rows, "R"))
             /\ run_fit' = [NoFit EXCEPT !["R"] = FitKeys(HandRows(rows, "R"))]
             /\ searched' = searched \cup Searched("R", HandRows(rows, "R"), V22_K_RANGE)
             /\ UNCHANGED v22_out
          \/ /\ ps_file.exists
             /\ rhp.ok
             /\ fit_rows' = fit_rows \cup FitKeys(rows)
             /\ run_fit' = [h \in Hands |-> FitKeys(HandRows(rows, h))]
             /\ searched' = searched \cup Searched("R", HandRows(rows, "R"), V22_K_RANGE)
                                      \cup Searched("L", HandRows(rows, "L"), V22_K_RANGE)
             /\ IF lhp.ok
                THEN /\ status' = [stage |-> "v22", result |-> "ok"]
                     /\ v22_out' = [exists |-> TRUE, year |-> y,
                                    rows |-> rhp.out \o lhp.out,
                                    models |-> [h \in Hands |->
                                                  IF h = "R" THEN rhp.model ELSE lhp.model]]
                ELSE /\ status' = [stage |-> "v22", result |-> "error"]
                     /\ UNCHANGED v22_out
    /\ UNCHANGED <<ps_file, sub_file, model_files, meta_file, vars_cl, cl_runs, snap>>
    /\ Others

Next ==
    \/ FeatureStage
    \/ ClLoad
    \/ ClClusterR
    \/ ClClusterL
    \/ ClSave
    \/ ClFallback
    \/ \E y \in SeasonSet : YearAnalysis(y)

Spec == Init /\ [][Next]_vars

(***************************************************************************)
(* Properties of feature engineering                                       *)
(***************************************************************************)
\* What the corpus holds, read off the raw files directly
CorpusRows == Concat([i \in DOMAIN SEASONS |->
                        IF raw[SEASONS[i]].exists THEN raw[SEASONS[i]].rows ELSE <<>>])
SvRowsOf(p) == SelectSeq(CorpusRows, LAMBDA e : IsSV(e) /\ e.pitcher = p)
MeasuredSvRowsOf(p) ==
    SelectSeq(SvRowsOf(p), LAMBDA e : e.release_speed # NaN /\ e.pfx_z # NaN)
SpeedSum(rows) == SeqSum([i \in DOMAIN rows |-> rows[i].release_speed])
PfxSum(rows) == SeqSum([i \in DOMAIN rows |-> rows[i].pfx_z])
SvLabels == {"CU", "SL", "ST"}
MapBuilt == fe_pc \in {"seasons", "done"}
SeasonDone == cur_year # 0 /\ raw[cur_year].exists
SeasonInput == ValidRows(raw[cur_year].rows)

RECURSIVE PctSumFrom(_, _)
PctSumFrom(row, i) ==
    IF i > Len(PITCH_TYPES) THEN FracZero
    ELSE IF PITCH_TYPES[i] \in DOMAIN row.pct
         THEN FracAdd(row.pct[PITCH_TYPES[i]], PctSumFrom(row, i + 1))
         ELSE PctSumFrom(row, i + 1)
PctSum(row) == PctSumFrom(row, 1)
GroupOf(row) == <<row.pitcher, row.game_year>>
TrackedCount(t, g) == Count(InGroup(t, g), LAMBDA e : e.pitch_type \in Tracked)

C6_EverySvPitcherMapped ==
    MapBuilt =>
        /\ DOMAIN sv_map = {p \in Pitchers : SvRowsOf(p) # <<>>}
        /\ \A p \in DOMAIN sv_map : sv_map[p] \in SvLabels

\* C6 as amended: the map holds exactly the pitchers that have at least one
\* SV event with both release_speed and pfx_z recorded, each with one
\* resolved label; a pitcher with no such event is absent from the map,
\* also when the pitcher has SV events that lack a measurement.
C6_MeasuredSvPitchersMapped ==
    MapBuilt =>
        /\ DOMAIN sv_map = {p \in Pitchers : MeasuredSvRowsOf(p) # <<>>}
        /\ \A p \in DOMAIN sv_map : sv_map[p] \in SvLabels

\* C6 witness: the map is built, one pitcher is in it, and another pitcher
\* with SV events, none of them fully measured, is not
C6_Witness ==
    /\ MapBuilt
    /\ \E p \in Pitchers, q \in Pitchers :
          /\ p \in DOMAIN sv_map
          /\ q \notin DOMAIN sv_map
          /\ SvRowsOf(q) # <<>>

\* C7: each mapped pitcher gets CU when the mean pfx_z of the SV events the
\* map is built from is below -0.50 (whatever the speed), otherwise SL when
\* their mean release_speed is above 84, otherwise ST; a mean of exactly
\* -0.50 is not CU and a mean of exactly 84 is not SL.
C7_SvLabelThresholds ==
    MapBuilt =>
        \A p \in DOMAIN sv_map :
            LET rows == MeasuredSvRowsOf(p)
                n    == Len(rows)
                drop == PfxSum(rows) < PFX_Z_CUTOFF * n
                fast == SpeedSum(rows) > SPEED_CUTOFF * n
            IN /\ n > 0
               /\ drop => sv_map[p] = "CU"
               /\ (~drop /\ fast) => sv_map[p] = "SL"
               /\ (~drop /\ ~fast) => sv_map[p] = "ST"
               /\ PfxSum(rows) = PFX_Z_CUTOFF * n => sv_map[p] # "CU"
               /\ SpeedSum(rows) = SPEED_CUTOFF * n => sv_map[p] # "SL"

\* C7 witness: one pitcher is CU although faster than 84, another is ST with
\* both means, taken over two events, exactly on the cut-offs
C7_Witness ==
    /\ MapBuilt
    /\ \E p \in DOMAIN sv_map, q \in DOMAIN sv_map :
          /\ sv_map[p] = "CU"
          /\ SpeedSum(MeasuredSvRowsOf(p)) > SPEED_CUTOFF * Len(MeasuredSvRowsOf(p))
          /\ sv_map[q] = "ST"
          /\ Len(MeasuredSvRowsOf(q)) = 2
          /\ PfxSum(MeasuredSvRowsOf(q)) = PFX_Z_CUTOFF * 2
          /\ SpeedSum(MeasuredSvRowsOf(q)) = SPEED_CUTOFF * 2
          /\ MeasuredSvRowsOf(q)[1].release_speed # MeasuredSvRowsOf(q)[2].release_speed

\* C8 as stated: after the reclassification step of process_season no event
\* is SV: an SV event of a mapped pitcher has the mapped label, an SV event
\* of a pitcher absent from the map has ST, any other event keeps its type.
C8_NoSvAfterReclassification ==
    SeasonDone =>
        /\ Len(df) = Len(SeasonInput)
        /\ \A i \in DOMAIN df :
              LET e == SeasonInput[i]
              IN /\ df[i].pitch_type # "SV"
                 /\ df[i].pitch_type =
                       IF ~IsSV(e) THEN e.pitch_type
                       ELSE IF e.pitcher \in DOMAIN sv_map THEN sv_map[e.pitcher]
                       ELSE "ST"

\* The corpus has no SV event with both measurements recorded
NoQualifyingSv == \A p \in Pitchers : MeasuredSvRowsOf(p) = <<>>

TypesOf(t) == [i \in DOMAIN t |-> t[i].pitch_type]

\* C9: for every table and every map, a second application of
\* reclassify_sv leaves every pitch_type as the first application left it,
\* and the table passed in is not modified by either call.
C9_ReclassifyIdempotent ==
    /\ rc_pc \in {"once", "twice"} => rc_arg = rc_arg0
    /\ rc_pc = "twice" =>
          /\ TypesOf(rc_out2) = TypesOf(rc_out1)
          /\ rc_out1 = reclassify_sv(rc_arg0, rc_map)

\* C9 witness: both calls are made on a table with an SV event of a mapped
\* pitcher and an SV event of a pitcher absent from the map
C9_Witness ==
    /\ rc_pc = "twice"
    /\ \E i \in DOMAIN rc_arg0, j \in DOMAIN rc_arg0 :
          /\ IsSV(rc_arg0[i]) /\ rc_arg0[i].pitcher \in DOMAIN rc_map
          /\ IsSV(rc_arg0[j]) /\ rc_arg0[j].pitcher \notin DOMAIN rc_map
          /\ rc_out1[i].pitch_type = rc_map[rc_arg0[i].pitcher]
          /\ rc_out1[j].pitch_type = "ST"

(***************************************************************************)
(* Properties of the stages on the feature tables                          *)
(***************************************************************************)
Keys(rows) == {KeyOf(r) : r \in Range(rows)}
ClusteringDone == pc = "idle" /\ status = [stage |-> "04", result |-> "ok"]

\* C2: the fallback step of the clustering stage leaves the fitted model of
\* each hand (scaler parameters, centroids, PCA basis, chosen k) and the
\* saved model files exactly as they were, however many sub-threshold rows
\* it scales, predicts and projects.
C2_FallbackReadsModelOnly ==
    [][pc = "saved" => (models' = models /\ model_files' = model_files)]_vars

\* C2 witness: a clustering run has finished whose fallback step assigned a
\* sub-threshold row with the fitted model of its hand and appended it
C2_Witness ==
    /\ ClusteringDone
    /\ cl_runs = 1
    /\ \E h \in Hands : HandRows(sub_file.rows, h) # <<>> /\ models[h].fitted
    /\ Len(ps_file.rows) > Len(hand_out["R"]) + Len(hand_out["L"])
    /\ models = model_files

\* C3 as stated: after feature aggregation a feature row is in the
\* qualified table if and only if total_pitches >= MIN_PITCHES and in the
\* sub-threshold table otherwise, no key is in both, and every row that was
\* ever passed to a scaler, k-means or PCA fit has total_pitches >= MIN_PITCHES.
C3_OnlyQualifiedRowsFitted ==
    /\ (pc = "idle" /\ status = [stage |-> "03", result |-> "ok"]) =>
          /\ \A r \in Range(DropPositionPlayers(features)) :
                /\ (r \in Range(ps_file.rows)) <=> (r.total_pitches >= MIN_PITCHES)
                /\ (r \in Range(sub_file.rows)) <=> (r.total_pitches < MIN_PITCHES)
          /\ Keys(ps_file.rows) \cap Keys(sub_file.rows) = {}
    /\ \A f \in fit_rows : f.total_pitches >= MIN_PITCHES

\* C4 as stated: a second completed run of the clustering stage on the
\* artifacts the first one left gives the same pitcher_seasons table, the
\* same fitted models and the same rows passed to the fits as the first run
\* on the artifacts of feature aggregation.
C4_ClusteringRerunIdempotent ==
    (ClusteringDone /\ cl_runs >= 2) =>
        /\ ps_file.rows = snap.ps
        /\ model_files = snap.models
        /\ run_fit = snap.fit

\* C5 as stated: whatever stages have run, each (pitcher, game_year) key is
\* in the pitcher_seasons table at most once, and once the clustering stage
\* has written the table each row carries one cluster id: prefix R for
\* is_rhp = 1, L for is_rhp = 0, ordinal in 0 .. k-1 for the hand's chosen k.
C5_OneAssignmentPerKey ==
    /\ \A i, j \in DOMAIN ps_file.rows :
          KeyOf(ps_file.rows[i]) = KeyOf(ps_file.rows[j]) => i = j
    /\ ClusteringDone =>
          \A i \in DOMAIN ps_file.rows :
             LET r == ps_file.rows[i]
                 h == IF r.is_rhp = 1 THEN "R" ELSE "L"
             IN /\ Len(r.cluster) = 2
                /\ r.cluster[1] = h
                /\ r.cluster[2] \in 0 .. (meta_file[IF h = "R" THEN "rhp_k" ELSE "lhp_k"] - 1)

\* C13 as stated: every cluster count k a search fits and scores on the n
\* rows of a partition satisfies 2 <= k <= n - 1.
C13_SearchWithinSilhouetteRange ==
    \A s \in searched : 2 <= s.k /\ s.k <= s.n - 1

\* C14: a run of the clustering stage that comes to a hand whose partition
\* has fewer than MIN_K rows (none included) ends there in an error; no
\* fitted model of the stage has fewer than MIN_K clusters; and from the
\* start of the stage up to the error the pitcher_seasons table, the model
\* files and the cluster metadata stay as they were.
SmallPartition(h) == Len(HandRows(ps_file.rows, h)) < MIN_K
EndsInError == pc' = "idle" /\ status' = [stage |-> "04", result |-> "error"]
C14_SmallPartitionIsFatal ==
    [][/\ (pc = "loaded" /\ SmallPartition("R")) => EndsInError
       /\ (pc = "clusteredR" /\ SmallPartition("L")) => EndsInError
       /\ (pc' = "loaded" \/ pc \in {"loaded", "clusteredR"}) =>
             <<ps_file, model_files, meta_file>>' = <<ps_file, model_files, meta_file>>
       /\ \A h \in Hands : models'[h].fitted =>
             models'[h].optimal_k >= MIN_K /\ Len(models'[h].centers) >= MIN_K]_vars

\* C14 witness: the right-handed partition was clustered, the left-handed
\* one has between 1 and MIN_K - 1 rows, and the stage ended in an error
\* with nothing written
C14_Witness ==
    /\ pc = "idle"
    /\ status = [stage |-> "04", result |-> "error"]
    /\ models["R"].fitted /\ ~models["L"].fitted
    /\ Len(HandRows(ps_file.rows, "L")) \in 1 .. (MIN_K - 1)
    /\ ~meta_file.exists
    /\ \A h \in Hands : ~model_files[h].fitted

(***************************************************************************)
(* Properties of the choice of the cluster count                           *)
(***************************************************************************)
Practical == {k \in KSet(k_ks) : k >= k_min}

\* C11: whatever the scores, the cluster count find_optimal_k returns is at
\* least min_k (8 with the range and floor of 04_clustering), and the count
\* the per-year search returns is at least its MIN_K (4).
C11_ChosenKAtLeastFloor ==
    /\ k_pc = "04" => k_out >= k_min
    /\ (k_pc = "04" /\ k_ks = <<K_FIRST, K_LAST>> /\ k_min = MIN_K) => k_out >= 8
    /\ k_pc = "v22" => k_out >= V22_MIN_K /\ k_out >= 4

\* C11 witness: with the range and floor of 04_clustering the best score of
\* the whole range is at a k below the floor, and the count returned is not
C11_Witness ==
    /\ k_pc = "04" /\ k_ks = <<K_FIRST, K_LAST>> /\ k_min = MIN_K
    /\ \E k \in K_FIRST .. (MIN_K - 1) : \A j \in K_RANGE \ {k} : k_silh[j] < k_silh[k]
    /\ k_out >= MIN_K

\* C12: find_optimal_k returns the candidate with the highest score among
\* those with k >= min_k, the smallest of them when several share that
\* score, and min_k when no candidate has k >= min_k.
C12_BestPracticalScoreFirstOnTie ==
    k_pc = "04" =>
       IF Practical # {}
       THEN /\ k_out \in Practical
            /\ \A j \in Practical : k_silh[j] <= k_silh[k_out]
            /\ \A j \in Practical : k_silh[j] = k_silh[k_out] => k_out <= j
       ELSE k_out = k_min

\* C12 witness: two candidates at or above the floor share the highest
\* score, a candidate below the floor scores higher still, and the smaller
\* of the two is returned
C12_Witness ==
    /\ k_pc = "04"
    /\ \E i \in Practical, j \in Practical :
          /\ i < j /\ k_silh[i] = k_silh[j] /\ k_out = i
          /\ \A n \in Practical : k_silh[n] <= k_silh[i]
    /\ \E n \in KSet(k_ks) \ Practical : k_silh[n] > k_silh[k_out]

(***************************************************************************)
(* Properties of the standardized values                                   *)
(***************************************************************************)
ZHandedOver == z_pc \in {"qualified", "fallback"}

\* the part of C15 about the range: what reaches the estimators is finite
\* and within the clip limits
ZFiniteInRange == ZHandedOver => (z_out \notin NonFinite /\ -CLIP <= z_out /\ z_out <= CLIP)

\* the part of C15 about nan: a nan is replaced by 0.0
ZNanToZero == (ZHandedOver /\ z_in = Z_NAN) => z_out = 0

\* C15: every standardized value handed to k-means, silhouette scoring and
\* PCA, of a qualified or of a fallback row, is finite and lies in
\* [-10, 10], and a value that was not finite is handed over as 0.0.
C15_FiniteInRangeNonFiniteToZero ==
    /\ ZFiniteInRange
    /\ (ZHandedOver /\ z_in \in NonFinite) => z_out = 0

(***************************************************************************)
(* Properties of the medoid                                                *)
(***************************************************************************)
MedoidChosen == md_pc \in {"feature", "pca", "export"}
\* the sum of the distances from member i to the other members
DistSum(i) ==
    SeqSum([j \in DOMAIN md_group |-> IF j = i THEN 0 ELSE Euclid(md_group[i], md_group[j])])

\* C16: the medoid is a member of the group whose sum of distances to the
\* other members is at most that of every other member; a group of one
\* returns its only member; of several members with the minimal sum the
\* first in table order is returned.  The same for the feature-space medoid
\* and the PCA-space medoid of profile_clusters and for _find_medoid.
C16_MedoidIsFirstMinimalMember ==
    MedoidChosen =>
       /\ md_out \in DOMAIN md_group
       /\ \A j \in DOMAIN md_group : DistSum(md_out) <= DistSum(j)
       /\ \A j \in DOMAIN md_group : DistSum(j) = DistSum(md_out) => md_out <= j
       /\ Len(md_group) = 1 => md_out = 1

\* C16 witness: three members, the first of them not minimal, the other two
\* sharing the minimal sum, and the second returned
C16_Witness ==
    /\ MedoidChosen
    /\ Len(md_group) = 3
    /\ DistSum(2) = DistSum(3) /\ DistSum(2) < DistSum(1)
    /\ md_out = 2

(***************************************************************************)
(* Properties of the archetype rules                                       *)
(***************************************************************************)
ArTraits == _pitcher_traits(ar_row, "RHP")
\* the positions in ARCHETYPE_RULES of the rules the traits satisfy
Satisfied == {i \in DOMAIN ARCHETYPE_RULES : test_fn(ARCHETYPE_RULES[i], ArTraits, "RHP")}
CatchAll == Len(ARCHETYPE_RULES)

\* C17: _archetype_name returns, for every trait dictionary and either hand,
\* exactly one label: the name of the first rule of the priority order whose
\* predicate the traits satisfy, and 'Kitchen Sink' exactly when no other
\* rule is satisfied.
C17_FirstSatisfiedRuleNamesTraits ==
    ar_pc = "named" =>
       /\ ar_label = ARCHETYPE_RULES[Min(Satisfied)]
       /\ (ar_label = "Kitchen Sink") <=> (Satisfied = {CatchAll})

\* C17 witness: traits that satisfy three rules are named by the first of
\* them in priority order
C17_Witness ==
    /\ ar_pc = "named"
    /\ Cardinality(Satisfied \ {CatchAll}) >= 3
    /\ ar_label = "CutCraft"

\* the rules Step 2 considers for the sub-archetype of the row
Eligible ==
    {i \in Satisfied : ARCHETYPE_RULES[i] # ar_primary /\ ARCHETYPE_RULES[i] # "Kitchen Sink"}
Score(i) == defining_fn(ARCHETYPE_RULES[i], ArTraits)

\* C19: for a member with total_pitches >= 100 the sub-archetype is the
\* satisfied rule of highest defining score among the rules other than the
\* primary label of the cluster and 'Kitchen Sink', the earliest in priority
\* order when scores tie, and 'Pure' exactly when there is no such rule; it
\* is never the primary label and never 'Kitchen Sink'.
C19_SubArchetypeIsStrongestOtherRule ==
    (ar_pc = "member" /\ ar_row.total_pitches >= 100) =>
       /\ IF Eligible = {} THEN ar_out.sub_archetype = "Pure"
          ELSE \E i \in Eligible :
                  /\ ar_out.sub_archetype = ARCHETYPE_RULES[i]
                  /\ \A j \in Eligible : Score(j) <= Score(i)
                  /\ \A j \in Eligible : Score(j) = Score(i) => i <= j
       /\ ar_out.sub_archetype # ar_primary
       /\ ar_out.sub_archetype # "Kitchen Sink"

\* C19 witness: the primary label is a rule the member satisfies with the
\* highest score of all, two other rules tie for the next score, and the
\* earlier of the two is the sub-archetype
C19_Witness ==
    /\ ar_pc = "member" /\ ar_row.total_pitches >= 100
    /\ \E p \in Satisfied, i \in Eligible, j \in Eligible :
          /\ ARCHETYPE_RULES[p] = ar_primary
          /\ \A n \in Eligible : Score(n) < Score(p)
          /\ i < j /\ Score(i) = Score(j)
          /\ \A n \in Eligible : Score(n) <= Score(i)
          /\ ar_out.sub_archetype = ARCHETYPE_RULES[i]

(***************************************************************************)
(* Properties of profile_clusters                                          *)
(***************************************************************************)
RowsAssigned == pf_pc \in {"assigned", "done"}
\* the display string of row i opens with the hybrid marker
Flagged(i) == MUTT_MARK \in Range(pf_out[i].archetype_dna)
\* the label top-down rule evaluation gives to the traits of row i
OwnLabel(i) == _archetype_name(_pitcher_traits(pf_df[i], HandLabel(pf_df[i])), HandLabel(pf_df[i]))
PrimaryOf(i) == pf_names[pf_df[i].cluster]
\* the rows of the profile stored under key
ProfileMembers(key) ==
    {i \in DOMAIN pf_df : HandLabel(pf_df[i]) = key[1] /\ pf_out[i].archetype = key[2]}

WithWhiff(row, w) == [row EXCEPT !.whiff = w]
ScenarioNamed == ar_pc \in {"named", "short"} /\ ar_row.whiff = 30
\* the second and third pitch types are the sinker and the slider
SinkerSliderMix == {ar_row.si, ar_row.sl} = {35, 25}

\* C18 as stated: with a miss rate of 0.30 the scenario is labelled by a
\* rule that matches on the miss rate, so that the label is another one
\* than with a miss rate of 0, and the label is not 'Kitchen Sink'.
C18_ScenarioLabelledByMissRateRule ==
    ScenarioNamed =>
       /\ ar_label # _archetype_name(_pitcher_traits(WithWhiff(ar_row, 0), "RHP"), "RHP")
       /\ ar_label # "Kitchen Sink"

\* C18 amended: _archetype_name labels the scenario with the first rule of
\* ARCHETYPE_RULES that its pitch mix satisfies, the same label for every
\* miss rate, and never with 'Kitchen Sink'; generate_short_name never
\* labels it 'Kitchen Sink' either, and labels it with its one rule on the
\* miss rate, 'Flamethrower', exactly when the miss rate is above 0.25 and
\* the second and third types are the sinker and the slider.
C18_ScenarioLabelledByUsageRule ==
    /\ ar_pc \in {"named", "short"} =>
          /\ ar_label = ARCHETYPE_RULES[Min(Satisfied)]
          /\ \A w \in {0, 25, 26, 30} :
                ar_label = _archetype_name(_pitcher_traits(WithWhiff(ar_row, w), "RHP"), "RHP")
          /\ ar_label # "Kitchen Sink"
    /\ ar_pc = "short" =>
          /\ ar_out[1] # "Kitchen Sink"
          /\ (ar_out[1] = "Flamethrower") <=> (ar_row.whiff > 25 /\ SinkerSliderMix)
          /\ (ar_out[1] = "Heater-Heavy") <=> (ar_row.whiff <= 25 /\ SinkerSliderMix)

\* C18 witness: the scenario with sinker and slider and a miss rate of 0.30
\* is 'Heavy Duty' for _archetype_name and 'Flamethrower' for
\* generate_short_name
C18_Witness ==
    /\ ar_pc = "short" /\ ar_row.whiff = 30
    /\ ar_row.si = 35 /\ ar_row.sl = 25
    /\ ar_label = "Heavy Duty"
    /\ ar_out[1] = "Flamethrower"

(***************************************************************************)
(* Properties of the display string                                        *)
(***************************************************************************)
\* Step 2 computed is_mutt for the row and found it true
RowIsMutt ==
    /\ ar_row.total_pitches >= 100
    /\ _archetype_name(ArTraits, "RHP") # ar_primary
Dna == ar_out.archetype_dna
\* the display string names a sub-archetype after the primary label
ShowsSub == Len(Dna) >= 3 /\ Dna[Len(Dna)] = ar_out.sub_archetype

\* the part of C21 about the plain string: the label alone for a member
\* that is 'Pure' and no hybrid
DnaPlainWhenPure ==
    (ar_pc = "member" /\ ar_out.sub_archetype = "Pure" /\ ~RowIsMutt) => Dna = <<ar_out.archetype>>

\* the part of C21 about the marker: in the string exactly for a hybrid
DnaMarkerIffMutt == ar_pc = "member" => ((MUTT_MARK \in Range(Dna)) <=> RowIsMutt)

\* C21: the display string is the primary label alone when the member is
\* 'Pure' and no hybrid, it shows the sub-archetype only when that is not
\* 'Pure', and it holds the hybrid marker exactly when the member is flagged
\* hybrid.
C21_DisplayStringParts ==
    /\ DnaPlainWhenPure
    /\ ar_pc = "member" => (ShowsSub => ar_out.sub_archetype # "Pure")
    /\ DnaMarkerIffMutt

(***************************************************************************)
(* Properties of the cluster names                                         *)
(***************************************************************************)
\* Step 1 has just ended; Steps 2 and 3 leave cluster_archetypes alone
ClustersNamed == pf_pc = "named"
ClusterIds == {pf_df[i].cluster : i \in DOMAIN pf_df}
ClusterRows(cid) == {i \in DOMAIN pf_df : pf_df[i].cluster = cid}
\* total_pitches summed over the rows of a set
RECURSIVE PitchSum(_)
PitchSum(S) ==
    IF S = {} THEN 0
    ELSE LET i == CHOOSE x \in S : TRUE IN pf_df[i].total_pitches + PitchSum(S \ {i})
\* members["total_pitches"].mean() < 100
MeanBelow100(cid) == PitchSum(ClusterRows(cid)) < 100 * Cardinality(ClusterRows(cid))
\* the sum of the feature-space distances from row i to the rows of S
RECURSIVE RowDistSum(_, _)
RowDistSum(i, S) ==
    IF S = {} THEN 0
    ELSE LET j == CHOOSE x \in S : TRUE
         IN Euclid(<<pf_df[i].ff, pf_df[i].ch>>, <<pf_df[j].ff, pf_df[j].ch>>) + RowDistSum(i, S \ {j})
\* the medoid of a cluster: its first row of minimal distance sum
MedoidOf(cid) ==
    LET S == ClusterRows(cid)
        least == Min({RowDistSum(j, S) : j \in S})
    IN Min({i \in S : RowDistSum(i, S) = least})

\* C22: a cluster whose members' mean total_pitches is below 100 is named
\* 'Eephus Lobber' whatever the traits of its members; a cluster whose mean
\* is at least 100 is named by the rules applied to its medoid and is never
\* named 'Eephus Lobber'.
C22_LowPitchClustersAreEephusLobber ==
    ClustersNamed =>
       /\ DOMAIN pf_names = ClusterIds
       /\ \A cid \in ClusterIds :
             IF MeanBelow100(cid) THEN pf_names[cid] = "Eephus Lobber"
             ELSE /\ pf_names[cid] = ARCHETYPE_RULES[
                        Min({n \in DOMAIN ARCHETYPE_RULES :
                               test_fn(ARCHETYPE_RULES[n], _pitcher_traits(pf_df[MedoidOf(cid)], "RHP"), "RHP")})]
                  /\ pf_names[cid] # "Eephus Lobber"

\* C22 witness: a cluster with mean below 100 that has a member with 100
\* pitches whose own label is 'Ghost' is named 'Eephus Lobber', next to a
\* cluster with mean at least 100 that holds a member below 100 and is named
\* by a rule
C22_Witness ==
    /\ ClustersNamed
    /\ \E c \in ClusterIds :
          /\ MeanBelow100(c) /\ pf_names[c] = "Eephus Lobber"
          /\ \E i \in ClusterRows(c) : pf_df[i].total_pitches >= 100 /\ OwnLabel(i) = "Ghost"
    /\ \E c \in ClusterIds :
          /\ ~MeanBelow100(c) /\ pf_names[c] = "Heavy Duty"

(***************************************************************************)
(* Properties of the PCA offset                                            *)
(***************************************************************************)
HandOf(r) == IF r.is_rhp = 1 THEN "R" ELSE "L"
\* the first principal component of a row of the table under the model of
\* its hand: X_3d[:, 0]
PcaXRaw(r) ==
    pca_transform(models[HandOf(r)].pca,
                  ClipNanToNum(scaler_transform(models[HandOf(r)].scaler, r.avg_velo_FF)))
WithinOffset(r) == Abs(PcaXRaw(r)) < X_OFFSET

\* C23: a point whose first principal component is smaller in magnitude
\* than X_OFFSET has pca_x > 0 in the right-handed partition and pca_x < 0
\* in the left-handed one, qualified and fallback rows alike, so the pca_x of
\* such points of the two partitions never overlap.
C23_OffsetSeparatesHands ==
    ClusteringDone =>
       /\ \A r \in Range(ps_file.rows) :
             WithinOffset(r) => IF HandOf(r) = "R" THEN r.pca_x > 0 ELSE r.pca_x < 0
       /\ \A r \in Range(ps_file.rows), l \in Range(ps_file.rows) :
             (HandOf(r) = "R" /\ HandOf(l) = "L" /\ WithinOffset(r) /\ WithinOffset(l))
                => l.pca_x < r.pca_x

\* C23 witness: a qualified right-handed row with a negative first component
\* on the right, a left-handed row with a negative one and a fallback
\* left-handed row with a positive one on the left, all within the offset
C23_Witness ==
    /\ ClusteringDone
    /\ \E r \in Range(ps_file.rows) :
          /\ HandOf(r) = "R" /\ r.total_pitches >= MIN_PITCHES
          /\ PcaXRaw(r) < 0 /\ WithinOffset(r) /\ r.pca_x > 0
    /\ \E l \in Range(ps_file.rows) :
          HandOf(l) = "L" /\ PcaXRaw(l) < 0 /\ WithinOffset(l) /\ l.pca_x < 0
    /\ \E l \in Range(ps_file.rows) :
          /\ HandOf(l) = "L" /\ l.total_pitches < MIN_PITCHES
          /\ PcaXRaw(l) > 0 /\ WithinOffset(l) /\ l.pca_x < 0

(***************************************************************************)
(* Properties of the velocity column                                       *)
(***************************************************************************)
VeloDone == ve_pc = "velo"
\* the recorded speeds of the rows of group g with pitch type pt
SpeedsOf(g, pt) ==
    LET rows == SelectSeq(InGroup(ve_df, g),
                          LAMBDA e : e.pitch_type = pt /\ e.release_speed # NaN)
    IN [i \in DOMAIN rows |-> rows[i].release_speed]
TypesWithSpeed(g) == {pt \in Range(VeloTypes) \ {""} : SpeedsOf(g, pt) # <<>>}
IsMeanOf(x, speeds) == x.den > 0 /\ x.num * Len(speeds) = SeqSum(speeds) * x.den

\* C24: avg_velo_FF of a (pitcher, season) is the mean recorded speed of its
\* FF events when it has one with a speed; when it has none, it is the mean
\* speed of one of its pitch types, and no pitch type of it has a higher
\* mean.
C24_FastballVeloOrFastestType ==
    VeloDone =>
       \A g \in Groups(ve_df) :
          IF SpeedsOf(g, "FF") # <<>>
          THEN g \in DOMAIN ve_out /\ IsMeanOf(ve_out[g], SpeedsOf(g, "FF"))
          ELSE TypesWithSpeed(g) # {} =>
                 /\ g \in DOMAIN ve_out
                 /\ \E pt \in TypesWithSpeed(g) : IsMeanOf(ve_out[g], SpeedsOf(g, pt))
                 /\ \A pt \in TypesWithSpeed(g) :
                       SeqSum(SpeedsOf(g, pt)) * ve_out[g].den
                          <= ve_out[g].num * Len(SpeedsOf(g, pt))

\* C24 witness: one group whose FF events have no speed and whose other two
\* pitch types differ in mean speed, and one group with FF speeds and a
\* faster other type
C24_Witness ==
    /\ VeloDone
    /\ \E g \in Groups(ve_df) :
          /\ \E e \in Range(InGroup(ve_df, g)) : e.pitch_type = "FF"
          /\ SpeedsOf(g, "FF") = <<>>
          /\ Cardinality(TypesWithSpeed(g)) = 2
          /\ ve_out[g] = Frac(94, 1)
    \/ /\ VeloDone
       /\ \E g \in Groups(ve_df) :
          /\ SpeedsOf(g, "FF") = <<88, 88>>
          /\ SpeedsOf(g, "SI") = <<94>>
          /\ ve_out[g] = Frac(88, 1)

(***************************************************************************)
(* Properties of the rates                                                 *)
(***************************************************************************)
RatesDone == ve_pc = "rates"
Swings(g) == Count(InGroup(ve_df, g), LAMBDA e : e.description \in SWING_DESCRIPTIONS)
Whiffs(g) == Count(InGroup(ve_df, g), LAMBDA e : e.description \in WHIFF_DESCRIPTIONS)
ZonePitches(g) == Count(InGroup(ve_df, g), LAMBDA e : e.zone # NaN)
BattedBalls(g) == Count(InGroup(ve_df, g), LAMBDA e : e.type = "X" /\ e.bb_type # "")
InUnitInterval(x) == x.den > 0 /\ 0 <= x.num /\ x.num <= x.den

\* C26: the rates divide by max(denominator, 1): compute_whiff_rate returns
\* whiff_rate 0 for a group without swings and whiffs / swings otherwise,
\* always within [0, 1], every whiff description being a swing description;
\* a group without located pitches is saved with zone_rate 0 and one without
\* typed batted balls with groundball_rate 0.
C26_RatesClampDenominators ==
    /\ WHIFF_DESCRIPTIONS \subseteq SWING_DESCRIPTIONS
    /\ RatesDone =>
          \A g \in Groups(ve_df) :
             /\ g \in DOMAIN ve_out.whiff
             /\ Swings(g) = 0 => ve_out.whiff[g] = FracZero
             /\ Swings(g) > 0 =>
                   ve_out.whiff[g].num * Swings(g) = Whiffs(g) * ve_out.whiff[g].den
             /\ InUnitInterval(ve_out.whiff[g])
             /\ ve_out.saved[g].whiff_rate = ve_out.whiff[g]
             /\ ZonePitches(g) = 0 => ve_out.saved[g].zone_rate = FracZero
             /\ BattedBalls(g) = 0 => ve_out.saved[g].groundball_rate = FracZero
             /\ InUnitInterval(ve_out.saved[g].zone_rate)
             /\ InUnitInterval(ve_out.saved[g].groundball_rate)

\* C26 witness: a group without swings, located pitches or typed batted
\* balls next to a group with a whiff among two swings, a pitch in the zone
\* and a ground ball
C26_Witness ==
    /\ RatesDone
    /\ \E g \in Groups(ve_df) :
          /\ Swings(g) = 0 /\ ZonePitches(g) = 0 /\ BattedBalls(g) = 0
          /\ ve_out.whiff[g] = FracZero
          /\ ve_out.saved[g].zone_rate = FracZero
          /\ ve_out.saved[g].groundball_rate = FracZero
    /\ \E g \in Groups(ve_df) :
          /\ Swings(g) = 2 /\ ve_out.whiff[g] = Frac(1, 2)
          /\ ve_out.saved[g].zone_rate # FracZero
          /\ ve_out.saved[g].groundball_rate # FracZero

(***************************************************************************)
(* Properties of the position-player filter                                *)
(***************************************************************************)
FeaturesSaved == pc = "idle" /\ status = [stage |-> "03", result |-> "ok"]
SavedRows == Range(ps_file.rows) \cup Range(sub_file.rows)
InLowBand(r) == 0 < r.avg_velo_FF /\ r.avg_velo_FF < VELO_FLOOR

\* C25: after feature aggregation neither table holds a row with
\* 0 < avg_velo_FF < 80, and every other row of the aggregated features, at
\* 80 or above or at 0, is in one of the two tables.
C25_OnlyLowBandRowsRemoved ==
    FeaturesSaved =>
       /\ \A r \in SavedRows : ~InLowBand(r)
       /\ \A r \in Range(features) : ~InLowBand(r) => r \in SavedRows

\* C25 witness: the features hold a row in the band, a row at 80 and a row
\* at 0; the first is in neither table, the other two are saved
C25_Witness ==
    /\ FeaturesSaved
    /\ \E r \in Range(features) : InLowBand(r) /\ r \notin SavedRows
    /\ \E r \in Range(ps_file.rows) : r.avg_velo_FF = VELO_FLOOR
    /\ \E r \in Range(sub_file.rows) : r.avg_velo_FF = 0

(***************************************************************************)
(* Properties of the primary archetype of cluster members                  *)
(***************************************************************************)
\* C27: every member of a cluster has, as primary archetype, the name Step 1
\* derived for the cluster, so two members with the same cluster id have the
\* same primary archetype.
C27_MembersShareClusterName ==
    RowsAssigned =>
       /\ \A i \in DOMAIN pf_df : pf_out[i].archetype = PrimaryOf(i)
       /\ \A i \in DOMAIN pf_df, j \in DOMAIN pf_df :
             pf_df[i].cluster = pf_df[j].cluster => pf_out[i].archetype = pf_out[j].archetype

(***************************************************************************)
(* Properties of the displayed traits                                      *)
(***************************************************************************)
ProfilesBuilt == pf_pc = "done"
\* the clusters whose name a profile carries, on the profile's hand
NamingClusters(key) ==
    {cid \in DOMAIN pf_names :
        pf_names[cid] = key[2] /\ cid[1] = (IF key[1] = "RHP" THEN "R" ELSE "L")}

\* C28: the traits a profile displays are the feature values of a medoid
\* that gave the profile its name, and for every profile but 'Eephus Lobber'
\* top-down rule evaluation on the displayed traits returns the profile's
\* name.
C28_DisplayedTraitsAreNamingMedoid ==
    ProfilesBuilt =>
       \A key \in DOMAIN pf_profiles :
          pf_profiles[key].name # "Eephus Lobber" =>
             /\ \E cid \in NamingClusters(key) : pf_profiles[key].medoid = MedoidOf(cid)
             /\ _archetype_name(pf_profiles[key].traits, key[1]) = pf_profiles[key].name

(***************************************************************************)
(* Agreement of the two encodings of the rules                             *)
(***************************************************************************)
\* the position of the first entry of ARCHETYPE_RULES whose test_fn the
\* traits of the row satisfy
FirstRule(hand) ==
    Min({i \in DOMAIN ARCHETYPE_RULES :
            test_fn(ARCHETYPE_RULES[i], _pitcher_traits(ar_row, hand), hand)})

\* C30: for every trait dictionary and either hand the label _archetype_name
\* returns is the name of the first entry of ARCHETYPE_RULES whose test is
\* satisfied, and the hybrid flag of a member with total_pitches >= 100
\* compares that same name with the primary label of its cluster.
C30_RuleListAgreesWithArchetypeName ==
    /\ ar_pc = "named" =>
          \A hand \in HandLabels : ar_label = ARCHETYPE_RULES[FirstRule(hand)]
    /\ (ar_pc = "member" /\ ar_row.total_pitches >= 100) =>
          ((MUTT_MARK \in Range(ar_out.archetype_dna))
              <=> (ARCHETYPE_RULES[FirstRule(HandLabel(ar_row))] # ar_primary))

\* C30 witness: traits naming 'Yakker' that also pass the tests of two
\* later entries of the list
C30_Witness ==
    /\ ar_pc = "named"
    /\ ar_label = "Yakker"
    /\ ARCHETYPE_RULES[FirstRule("LHP")] = "Yakker"
    /\ \A n \in {"Cutman", "Swordfighter"} : test_fn(n, ArTraits, "LHP")

(***************************************************************************)
(* Properties of the orchestrator                                          *)
(***************************************************************************)
ValidStart == run_from \in 1..Len(STEPS)

\* C29: the steps started are consecutive steps of the list from --from on;
\* a step is started only after the one before it returned success; after a
\* failed step no step is started and the orchestrator has exited, with the
\* exit code of that step; with --from outside 1..6 no step is ever started
\* and the exit code is 1.
C29_StepsInOrderStopAtFailure ==
    /\ \A j \in DOMAIN run_started : run_started[j] = run_from + j - 1
    /\ \A j \in DOMAIN run_started : run_started[j] \in DOMAIN STEPS
    /\ \A j \in DOMAIN run_started :
          j > 1 => (j - 1 \in DOMAIN run_results /\ run_results[j - 1] = 0)
    /\ \A j \in DOMAIN run_results :
          run_results[j] # 0 =>
             /\ j = Len(run_started)
             /\ run_pc = "exited"
             /\ run_results[j] > 0 => run_exit = run_results[j]
    /\ ~ValidStart => run_started = <<>>
    /\ (~ValidStart /\ run_pc = "exited") => run_exit = 1

\* C29 witness: started at step 3, the orchestrator ran steps 3 and 4 and
\* exited with the code 127 of step 5
C29_Witness ==
    /\ run_from = 3
    /\ run_started = <<3, 4, 5>>
    /\ run_results = <<0, 0, 127>>
    /\ run_pc = "exited" /\ run_exit = 127

====
